---- MODULE Spec2Model ----
(***************************************************************************)
(* Model of the caching and invalidation layer of the movie service:       *)
(* the two cache backends (cache/memory_cache.py, cache/redis_cache.py),   *)
(* the read handlers of api.py that resolve cache -> store -> snapshot,    *)
(* and the write paths of api.py that change the store and invalidate.     *)
(***************************************************************************)
EXTENDS Integers, Sequences, FiniteSets, TLC

(***************************************************************************)
(* Bounds of the model.                                                    *)
(***************************************************************************)
\* number of clock advances explored
MaxTicks == 3
MaxAppTicks == 1
MaxSnapTicks == 2
\* longest batch handed to an incremental update
MaxBatch == 3

(***************************************************************************)
(* Program constants.                                                      *)
(***************************************************************************)
\* TTLCache(maxsize=200, ttl=600)
MEM_MOVIE_RELATED_TTL == 600
\* TTLCache(maxsize=10, ttl=600)
MEM_TOP_RATED_TTL == 600
\* TTLCache(maxsize=100, ttl=300)
MEM_BROWSE_TTL == 300
\* TTLCache(maxsize=50, ttl=300)
MEM_SEARCH_TTL == 300
\* redis_cache.py module constants
MOVIE_RELATED_TTL == 600
TOP_RATED_TTL == 600
BROWSE_TTL == 300
SEARCH_TTL == 300
\* top_rated() always asks for 24 movies
TOP_LIMIT == 24

(***************************************************************************)
(* Data.                                                                   *)
(***************************************************************************)
Kinds == {"movie_related", "top_rated", "browse", "search"}

\* slugs of the movies the store and the snapshot can hold
Slugs == {"a", "b"}
\* contents of a movie record (0 stands for "no record")
Data == {1, 2}

\* Python's None for an optional string or number argument
None == <<"None">>

\* A payload: what one query answers.  Lists are kept as sets of
\* <<slug, data>> pairs; their order is a function of the contents.
\* `src` tells which tier answered; `old` is set on a cached payload when
\* the store is written after it was cached.
NoPayload == [movies |-> {}, related |-> {}, total |-> 0, src |-> "none", old |-> FALSE]
Payload(m, r, t) == [movies |-> m, related |-> r, total |-> t, src |-> "none", old |-> FALSE]
From(p, tier) == [p EXCEPT !.src = tier]

\* the result of a cache get: Optional[Value]
\* (raised: the call ended in an exception instead of returning)
Miss == [hit |-> FALSE, val |-> NoPayload, raised |-> FALSE]
Hit(v) == [hit |-> TRUE, val |-> v, raised |-> FALSE]
Raised == [hit |-> FALSE, val |-> NoPayload, raised |-> TRUE]

(***************************************************************************)
(* str.lower() and str.strip() on strings kept as sequences of characters. *)
(***************************************************************************)
LowerChar(c) == IF c = "A" THEN "a" ELSE IF c = "B" THEN "b" ELSE c

Lower(s) == [i \in 1..Len(s) |-> LowerChar(s[i])]

IsSpace(c) == c = " "

RECURSIVE LStrip(_)
LStrip(s) == IF s # <<>> /\ IsSpace(Head(s)) THEN LStrip(Tail(s)) ELSE s

RECURSIVE RStrip(_)
RStrip(s) ==
    IF s # <<>> /\ IsSpace(s[Len(s)]) THEN RStrip(SubSeq(s, 1, Len(s) - 1)) ELSE s

Strip(s) == RStrip(LStrip(s))

(***************************************************************************)
(* Cache keys.                                                             *)
(***************************************************************************)
\* f"top:{limit}"
TopKey(limit) == <<"top", limit>>

\* an Optional[str] formatted as it is
OrEmpty_AsIs(x) == x

\* `x or ''` for an Optional[str]
OrEmpty(x) == IF x = None \/ x = <<>> THEN <<>> ELSE x
\* None for an Optional[float]
NoneNum == 0 - 1
\* `min_rating or 0`
OrZero(x) == IF x = NoneNum \/ x = 0 THEN 0 ELSE x

\* str() of a one-digit int
DigitChars == <<"0", "1", "2", "3", "4", "5", "6", "7", "8", "9">>
IntStr(n) == <<DigitChars[n + 1]>>

\* str() of what `min_rating or 0` leaves: the int 0, or a float like 7.0
RatingStr(x) == IF x = 0 THEN IntStr(0) ELSE IntStr(x) \o <<".", "0">>

\* f"{genre or ''}:{service or ''}:{availability or ''}:{min_rating or 0}:{page}"
browse_key(genre, service, availability, min_rating, page) ==
    OrEmpty(genre) \o <<":">> \o OrEmpty(service) \o <<":">>
        \o OrEmpty(availability) \o <<":">> \o RatingStr(OrZero(min_rating))
        \o <<":">> \o IntStr(page)

\* RedisCacheManager._browse_key: the same behind the prefix "browse:"
redis_browse_key(genre, service, availability, min_rating, page) ==
    <<"b", "r", "o", "w", "s", "e", ":">>
        \o browse_key(genre, service, availability, min_rating, page)

\* query.strip() alone
SearchKey_NoLower(query) == Strip(query)

\* query.lower().strip()
SearchKey(query) == Strip(Lower(query))

(***************************************************************************)
(* cachetools.TTLCache as MovieCacheManager uses it: a map from key to     *)
(* (value, expires); an item is visible while timer() < expires, expired   *)
(* items are dropped by the next insertion, clear() empties the map.       *)
(* `at` records the time of the set.                                       *)
(***************************************************************************)
EmptyMap == <<>>

MapPut(m, k, e) == [x \in (DOMAIN m) \cup {k} |-> IF x = k THEN e ELSE m[x]]

\* a slip in the constructor arguments: the browse cache built with ttl=600
MemTTL_BrowseLong(kind) ==
    CASE kind = "movie_related" -> MEM_MOVIE_RELATED_TTL
      [] kind = "top_rated" -> MEM_TOP_RATED_TTL
      [] kind = "browse" -> MEM_MOVIE_RELATED_TTL
      [] kind = "search" -> MEM_SEARCH_TTL

MemTTL(kind) ==
    CASE kind = "movie_related" -> MEM_MOVIE_RELATED_TTL
      [] kind = "top_rated" -> MEM_TOP_RATED_TTL
      [] kind = "browse" -> MEM_BROWSE_TTL
      [] kind = "search" -> MEM_SEARCH_TTL

Live(e, t) == t < e.expires

TTLCacheGet(c, k, t) ==
    IF k \in DOMAIN c /\ Live(c[k], t) THEN Hit(c[k].val) ELSE Miss

\* TTLCache.expire(): drop the items that are no longer visible
Expire(c, t) == [x \in {y \in DOMAIN c : Live(c[y], t)} |-> c[x]]

\* an item that stays visible for twice its ttl
TTLCacheSet_Long(c, k, v, ttl, t) ==
    MapPut(Expire(c, t), k, [val |-> v, expires |-> t + ttl + ttl, at |-> t])

TTLCacheSet(c, k, v, ttl, t) ==
    MapPut(Expire(c, t), k, [val |-> v, expires |-> t + ttl, at |-> t])

\* the entries of a cache, each marked as cached before a store write
MarkOld(c) == [k \in DOMAIN c |-> [c[k] EXCEPT !.val.old = TRUE]]
MarkOldAll(mc) == [kind \in Kinds |-> MarkOld(mc[kind])]

\* MovieCacheManager.get_* : the value under the key, or None
MemGet(mc, kind, k, t) == TTLCacheGet(mc[kind], k, t)

\* a set that writes nothing
MemSet_Dropped(mc, kind, k, v, t) == mc

\* MovieCacheManager.set_*
MemSet(mc, kind, k, v, t) ==
    [mc EXCEPT ![kind] = TTLCacheSet(mc[kind], k, v, MemTTL(kind), t)]

\* MovieCacheManager.invalidate_all
MemInvalidateAll(mc) == [kind \in Kinds |-> EmptyMap]

(***************************************************************************)
(* RedisCacheManager.  The keyspace is kept per key prefix; a key written  *)
(* by SETEX is visible while now < set time + ttl.  `connected` is         *)
(* RedisCacheManager._connected, `up` tells whether the service answers:   *)
(* when it does not, every call of the client raises inside the try.       *)
(***************************************************************************)
RedisTTL(kind) ==
    CASE kind = "movie_related" -> MOVIE_RELATED_TTL
      [] kind = "top_rated" -> TOP_RATED_TTL
      [] kind = "browse" -> BROWSE_TTL
      [] kind = "search" -> SEARCH_TTL

\* json.dumps of the value / the parse of the stored text
Serialize(v) == [json |-> v]
Deserialize(data) == data.json

\* a stored text that json.loads or Movie.from_json rejects
CorruptData == [json |-> NoPayload, bad |-> TRUE]
IsCorrupt(data) == "bad" \in DOMAIN data

\* what a get makes of the stored text: get_movie_with_related and
\* get_browse parse inside their try and return None when that raises;
\* get_top_rated and get_search return _deserialize_movies(data), which
\* returns [] when the parse raises
redis_parse(kind, data) ==
    IF ~IsCorrupt(data) THEN Hit(Deserialize(data))
    ELSE IF kind \in {"top_rated", "search"} THEN Hit(NoPayload)
    ELSE Miss

\* RedisCacheManager.get_* without its try/except
RedisGet_NoCatch(keys, kind, k, t, connected, up) ==
    IF ~connected THEN Miss
    ELSE IF ~up THEN Raised
    ELSE IF k \in DOMAIN keys[kind] /\ Live(keys[kind][k], t)
         THEN redis_parse(kind, keys[kind][k].val)
         ELSE Miss

\* RedisCacheManager.get_*
RedisGet(keys, kind, k, t, connected, up) ==
    IF ~connected THEN Miss
    ELSE IF ~up THEN Miss
    ELSE IF k \in DOMAIN keys[kind] /\ Live(keys[kind][k], t)
         THEN redis_parse(kind, keys[kind][k].val)
         ELSE Miss

\* RedisCacheManager.set_* : the keyspace afterwards
RedisSet(keys, kind, k, v, t, connected, up) ==
    IF ~connected THEN keys
    ELSE IF ~up THEN keys
    ELSE [keys EXCEPT ![kind] =
             MapPut(Expire(keys[kind], t), k,
                    [val |-> Serialize(v), expires |-> t + RedisTTL(kind), at |-> t])]

\* the key patterns invalidate_all deletes, in its order
Patterns == <<"movie_related", "top_rated", "browse", "search">>

\* one round of the loop of RedisCacheManager.invalidate_all: scan and
\* delete the keys of pattern i
RedisDeletePattern(keys, i) == [keys EXCEPT ![Patterns[i]] = EmptyMap]

\* the same round when the service may be failing: scan raises, nothing is
\* deleted
RedisScanDelete(keys, i, up) == IF up THEN RedisDeletePattern(keys, i) ELSE keys

\* bookkeeping: the values the service holds were stored before a store write
RedisMarkOld(keys) ==
    [kind \in Kinds |->
        [k \in DOMAIN keys[kind] |-> [keys[kind][k] EXCEPT !.val.json.old = TRUE]]]

(***************************************************************************)
(* The movies.  A collection (the store's, the snapshot's) is a function   *)
(* from slug to the record's contents, 0 where there is no record.         *)
(***************************************************************************)
NoMovies == [s \in Slugs |-> 0]

TitleOf(s) == IF s = "a" THEN <<"a", "a">> ELSE <<"b", "b">>
GenresOf(s) == IF s = "a" THEN {<<"A">>} ELSE {<<"A">>, <<"B">>}

Present(st) == {s \in Slugs : st[s] # 0}
MoviesOf(st, S) == {<<s, st[s]>> : s \in S}
ListOf(st, S) == Payload(MoviesOf(st, S), {}, Cardinality(S))

\* `sub in s` for strings
Contains(sub, s) ==
    \E i \in 0..(Len(s) - Len(sub)) : SubSeq(s, i + 1, i + Len(sub)) = sub

\* whether a result counts as empty (`if not movies`, `if movie is None`)
IsEmpty(p) == p.movies = {}

\* MovieRepository.get_movie_with_related
repo_get_movie_with_related(st, slug) ==
    IF st[slug] = 0 THEN NoPayload
    ELSE Payload({<<slug, st[slug]>>},
                 MoviesOf(st, {s \in Present(st) \ {slug} :
                                  GenresOf(s) \cap GenresOf(slug) # {}}),
                 1)

\* MovieRepository.get_top_rated
repo_get_top_rated(st) == ListOf(st, Present(st))

\* MovieRepository.search: a text search, case-insensitive on whole words
repo_search(st, q) ==
    IF q = <<>> \/ Len(q) < 2 THEN NoPayload
    ELSE ListOf(st, {s \in Present(st) : Strip(Lower(q)) = TitleOf(s)})

\* MovieRepository.get_all and count under a genre filter
repo_get_all(st, genre) ==
    IF genre = None \/ genre = <<>> THEN ListOf(st, Present(st))
    ELSE ListOf(st, {s \in Present(st) : genre \in GenresOf(s)})

(***************************************************************************)
(* MovieCache: the snapshot (the global `cache` of api.py).                *)
(***************************************************************************)
\* default of CACHE_TTL_SECONDS
CACHE_TTL_SECONDS == 21600

is_stale(c, t) == t - c.last_fetch > CACHE_TTL_SECONDS
is_empty(c) == Present(c.movies) = {}

\* what the external sources can deliver to one fetch cycle: a list of
\* movies (possibly empty), or the cycle ends in an exception
FetchOutcomes ==
    {[raises |-> TRUE, movies |-> [s \in Slugs |-> 0]],
     [raises |-> FALSE, movies |-> [s \in Slugs |-> 0]],
     [raises |-> FALSE, movies |-> [s \in Slugs |-> IF s = "a" THEN 2 ELSE 1]]}

\* fetch_and_cache_movies: the snapshot afterwards, the list returned,
\* whether it raised, and whether an external fetch cycle ran
fetch_and_cache_movies(c, outcome, t) ==
    IF c.is_fetching
    THEN [cache |-> c, ret |-> c.movies, raised |-> FALSE, fetched |-> FALSE]
    ELSE IF outcome.raises
    THEN [cache |-> [c EXCEPT !.is_fetching = FALSE], ret |-> NoMovies,
          raised |-> TRUE, fetched |-> TRUE]
    ELSE [cache |-> [movies |-> outcome.movies, last_fetch |-> t,
                     is_fetching |-> FALSE],
          ret |-> outcome.movies, raised |-> FALSE, fetched |-> TRUE]

\* get_cached_movies
get_cached_movies(c, outcome, t) ==
    IF is_empty(c) \/ is_stale(c, t)
    THEN fetch_and_cache_movies(c, outcome, t)
    ELSE [cache |-> c, ret |-> c.movies, raised |-> FALSE, fetched |-> FALSE]

\* the in-process queries of the handlers over the snapshot's movies
\* find_movie_by_slug and get_related_movies
snap_movie_with_related(ms, slug) ==
    IF ms[slug] = 0 THEN NoPayload
    ELSE Payload({<<slug, ms[slug]>>},
                 MoviesOf(ms, {s \in Present(ms) \ {slug} :
                                  GenresOf(s) \cap GenresOf(slug) # {}}),
                 1)

\* sorted by rating, [:24]
snap_top_rated(ms) == ListOf(ms, Present(ms))

\* search_cached_movies: the movies with a positive score
search_cached_movies(q, ms) ==
    IF q = <<>> \/ Present(ms) = {} THEN NoPayload
    ELSE LET ql == Strip(Lower(q))
         IN  ListOf(ms, {s \in Present(ms) :
                 \/ Contains(ql, TitleOf(s))
                 \/ \E g \in GenresOf(s) : Contains(ql, Lower(g))})

\* the filter of browse() over the snapshot
snap_browse(ms, genre) ==
    IF genre = None \/ genre = <<>> THEN ListOf(ms, Present(ms))
    ELSE ListOf(ms, {s \in Present(ms) : genre \in GenresOf(s)})

\* the snapshot file: absent, complete, or partial (opened for writing and
\* not, or not completely, written).  had: the path held a complete file
\* before
NoFile ==
    [state |-> "absent", movies |-> NoMovies, timestamp |-> 0, mtime |-> 0,
     had |-> FALSE]

\* MovieCache.save_to_file, from open to close
save_to_file(c, t) ==
    [state |-> "complete", movies |-> c.movies, timestamp |-> c.last_fetch,
     mtime |-> t, had |-> TRUE]

\* the process: whether it runs, where its call of fetch_and_cache_movies
\* stands, and how the last call ended
IdleProc == [alive |-> TRUE, pc |-> "idle", last |-> "none"]

NoProbe == [pc |-> "none"]

(***************************************************************************)
(* State.                                                                  *)
(***************************************************************************)
VARIABLES
    now,            \* time.time(), in seconds
    ticks,          \* number of clock advances so far
    memory_cache,   \* cache.memory_cache: the four TTLCaches of MovieCacheManager
    got,            \* what the last direct get of the cache tier returned
    cache_manager,  \* cache._cache_manager: "memory" or "redis"
    connected,      \* RedisCacheManager._connected
    redisUp,        \* whether the redis service answers
    redis,          \* the keys of the redis service
    movie_repo,     \* whether api.movie_repo is set (MongoDB reachable at startup)
    store,          \* the movies collection
    cache,          \* api.cache, the MovieCache snapshot
    reader,         \* the read requests in flight
    writer,         \* the write requests in flight
    answered,       \* browse keys answered from the store since the last write
    cache_file,     \* CACHE_FILE, the snapshot file on disk
    proc,           \* the process and the call of fetch_and_cache_movies it executes
    probe,          \* arguments and results of the call under examination
    redis_url       \* whether REDIS_URL is configured

tierVars == <<now, ticks, memory_cache, got>>

auxVars == <<proc, probe, redis_url>>

appVars == <<cache_manager, connected, redisUp, redis, movie_repo, store, cache,
             reader, writer, answered, cache_file, proc, probe, redis_url>>

vars == <<now, ticks, memory_cache, got, cache_manager, connected, redisUp, redis,
          movie_repo, store, cache, reader, writer, answered, cache_file, proc,
          probe, redis_url>>

\* the clock advances by one second, or to just before / exactly a TTL
TickSteps == {1, MEM_BROWSE_TTL - 1, MEM_BROWSE_TTL}

Tick(d) ==
    /\ ticks < MaxTicks
    /\ now' = now + d
    /\ ticks' = ticks + 1

(***************************************************************************)
(* The cache tier on its own: calls of the local backend's interface.      *)
(***************************************************************************)
\* arguments the tier is called with
TierSlugs == {"a"}
TierQueries == {<<"A", "a", " ">>}
TierGenres == {None}
TierPayloads == {From(Payload({<<"a", 1>>}, {}, 1), "store")}

\* the key each interface function derives from its arguments
TierKeys(kind) ==
    CASE kind = "movie_related" -> TierSlugs
      [] kind = "top_rated" -> {TopKey(TOP_LIMIT)}
      [] kind = "browse" ->
            {browse_key(g, None, None, NoneNum, 1) : g \in TierGenres}
      [] kind = "search" -> {SearchKey(q) : q \in TierQueries}

TierSet(kind, k, v) ==
    /\ memory_cache' = MemSet(memory_cache, kind, k, v, now)
    /\ UNCHANGED <<now, ticks, got>>
    /\ UNCHANGED appVars

TierGet(kind, k) ==
    /\ got' = [kind |-> kind, key |-> k, res |-> MemGet(memory_cache, kind, k, now)]
    /\ UNCHANGED <<now, ticks, memory_cache>>
    /\ UNCHANGED appVars

TierInvalidateAll ==
    /\ memory_cache' = MemInvalidateAll(memory_cache)
    /\ UNCHANGED <<now, ticks, got>>
    /\ UNCHANGED appVars

TierTick ==
    /\ \E d \in TickSteps : Tick(d)
    /\ UNCHANGED <<memory_cache, got>>
    /\ UNCHANGED appVars

NoGet == [kind |-> "none", key |-> <<>>, res |-> Miss]

\* a request slot that holds no request
IdleReader ==
    [pc |-> "idle", kind |-> "none", arg |-> <<>>, res |-> NoPayload,
     status |-> "none", nstore |-> 0, nsnap |-> 0, fetched |-> FALSE,
     hit |-> FALSE, down |-> FALSE, quiet |-> FALSE, seen |-> FALSE,
     storefail |-> FALSE]

IdleWriter ==
    [pc |-> "idle", op |-> "none", batch |-> NoMovies, todo |-> {},
     slug |-> "a", acked |-> FALSE, inval |-> FALSE, ip |-> 0, status |-> "none",
     fetched |-> FALSE, conc |-> FALSE, overlap |-> FALSE, ifail |-> FALSE,
     kept |-> NoMovies]

Readers == {1}
Writers == {1, 2}

\* the process starts long after the epoch: a snapshot never fetched
\* (last_fetch = 0) is stale
StartTime == CACHE_TTL_SECONDS + 1

EmptySnapshot == [movies |-> NoMovies, last_fetch |-> 0, is_fetching |-> FALSE]

TierInit ==
    /\ now = StartTime
    /\ ticks = 0
    /\ memory_cache = [kind \in Kinds |-> EmptyMap]
    /\ got = NoGet
    /\ cache_manager = "memory"
    /\ connected = FALSE
    /\ redisUp = FALSE
    /\ redis = [kind \in Kinds |-> EmptyMap]
    /\ movie_repo = TRUE
    /\ store = NoMovies
    /\ cache = EmptySnapshot
    /\ reader = [r \in Readers |-> IdleReader]
    /\ writer = [w \in Writers |-> IdleWriter]
    /\ answered = {}
    /\ proc = IdleProc
    /\ probe = NoProbe
    /\ cache_file = NoFile
    /\ redis_url = FALSE

TierNext ==
    \/ \E kind \in Kinds : \E k \in TierKeys(kind) : \E v \in TierPayloads :
           TierSet(kind, k, v)
    \/ \E kind \in Kinds : \E k \in TierKeys(kind) : TierGet(kind, k)
    \/ TierInvalidateAll
    \/ TierTick

SpecTier == TierInit /\ [][TierNext]_vars

(***************************************************************************)
(* C2: for every query kind of the local backend (movie-with-related and   *)
(* top-rated: 600 s; browse and search: 300 s) an entry set at time T is   *)
(* returned by get at every time T+d with d < TTL and get is a miss at     *)
(* every time T+d with d >= TTL.                                           *)
(***************************************************************************)
ClaimedTTL(kind) == IF kind \in {"movie_related", "top_rated"} THEN 600 ELSE 300

ReadArgs(kind) ==
    CASE kind = "movie_related" -> {<<s>> : s \in Slugs}
      [] kind = "top_rated" -> {<<TOP_LIMIT>>}
      [] kind = "browse" -> {None, <<>>, <<"B">>}
      [] kind = "search" -> {<<"A", "a", " ">>, <<"b">>}

\* the key under which the active backend keeps the answer
CacheKey(kind, arg) ==
    CASE kind = "movie_related" -> arg[1]
      [] kind = "top_rated" -> TopKey(arg[1])
      [] kind = "browse" -> browse_key(arg, None, None, NoneNum, 1)
      [] kind = "search" -> SearchKey(arg)

\* get_cache().get_* on a given state of the two backends
CacheLookup(mc, keys, up, t, kind, arg) ==
    IF cache_manager = "memory"
    THEN MemGet(mc, kind, CacheKey(kind, arg), t)
    ELSE RedisGet(keys, kind, CacheKey(kind, arg), t, connected, up)

\* get_cache().get_*
CacheGet(kind, arg) == CacheLookup(memory_cache, redis, redisUp, now, kind, arg)

\* whether the handler of this kind consults the cache tier at all
\* (browse() goes to the store directly)
UsesCache(kind) == kind # "browse"

\* where a handler goes after its cache lookup
AfterGet_IgnoreHit(g) == IF movie_repo THEN "store" ELSE "fallback"

AfterGet(g) ==
    IF g.hit THEN "done" ELSE IF movie_repo THEN "store" ELSE "fallback"

\* the store query of each handler
StoreQuery(kind, arg) ==
    CASE kind = "movie_related" -> repo_get_movie_with_related(store, arg[1])
      [] kind = "top_rated" -> repo_get_top_rated(store)
      [] kind = "browse" -> repo_get_all(store, arg)
      [] kind = "search" -> repo_search(store, arg)

\* the same query of each handler over the snapshot's movies
SnapshotQuery(kind, arg, ms) ==
    CASE kind = "movie_related" -> snap_movie_with_related(ms, arg[1])
      [] kind = "top_rated" -> snap_top_rated(ms)
      [] kind = "browse" -> snap_browse(ms, arg)
      [] kind = "search" -> search_cached_movies(arg, ms)

\* where a handler goes after the store answered with p
AfterStore(kind, p) ==
    IF kind = "browse" THEN "done"
    ELSE IF IsEmpty(p) THEN "fallback" ELSE "set"

\* where a handler goes after it computed its answer from the snapshot
AfterFallback_Cache(kind) == IF kind = "browse" THEN "done" ELSE "set"

AfterFallback(kind) == "done"

ReadBegin(r, kind, arg) ==
    /\ reader[r].pc \in {"idle", "done"}
    /\ LET g == IF UsesCache(kind) THEN CacheGet(kind, arg) ELSE Miss
           nxt == IF g.raised THEN "done" ELSE AfterGet(g)
       IN  reader' = [reader EXCEPT ![r] =
              [pc |-> nxt, kind |-> kind, arg |-> arg,
               res |-> IF g.hit THEN From(g.val, "cache") ELSE NoPayload,
               status |-> IF g.raised THEN "cache_error"
                          ELSE IF nxt = "done" THEN "ok" ELSE "none",
               nstore |-> 0, nsnap |-> 0, fetched |-> FALSE,
               hit |-> g.hit,
               storefail |-> FALSE,
               down |-> (cache_manager = "redis" /\ ~redisUp),
               quiet |-> (\A w \in Writers : writer[w].pc \in {"idle", "done"}),
               seen |-> (kind = "browse" /\ CacheKey(kind, arg) \in answered)]]
    /\ UNCHANGED <<auxVars, cache_file, tierVars, cache_manager, connected, redisUp, redis, movie_repo,
                   store, cache, writer, answered>>

\* the await of the store query: it answers, or it raises
ReadStore(r) ==
    /\ reader[r].pc = "store"
    /\ \E ok \in BOOLEAN :
         LET kind == reader[r].kind
             arg == reader[r].arg
             p == IF ok THEN From(StoreQuery(kind, arg), "store") ELSE NoPayload
             nxt == IF ok THEN AfterStore(kind, p) ELSE "fallback"
         IN  /\ reader' = [reader EXCEPT ![r].pc = nxt,
                                         ![r].res = p,
                                         ![r].nstore = @ + 1,
                                         ![r].storefail = ~ok,
                                         ![r].status = IF nxt = "done" THEN "ok" ELSE @]
             /\ answered' = IF ok /\ kind = "browse"
                            THEN answered \cup {CacheKey(kind, arg)}
                            ELSE answered
    /\ UNCHANGED <<auxVars, cache_file, tierVars, cache_manager, connected, redisUp, redis, movie_repo,
                   store, cache, writer>>

\* get_cache().set_* with the answer the handler holds
ReadSet(r) ==
    /\ reader[r].pc = "set"
    /\ LET kind == reader[r].kind
           k == CacheKey(kind, reader[r].arg)
       IN  IF cache_manager = "memory"
           THEN /\ memory_cache' = MemSet(memory_cache, kind, k, reader[r].res, now)
                /\ redis' = redis
           ELSE /\ redis' = RedisSet(redis, kind, k, reader[r].res, now,
                                     connected, redisUp)
                /\ memory_cache' = memory_cache
    /\ reader' = [reader EXCEPT ![r].pc = "done", ![r].status = "ok"]
    /\ UNCHANGED <<auxVars, cache_file, now, ticks, got, cache_manager, connected, redisUp, movie_repo,
                   store, cache, writer, answered>>

\* get_cached_movies() and the in-process query over what it returns
ReadFallback(r) ==
    /\ reader[r].pc = "fallback"
    /\ \E outcome \in FetchOutcomes :
         LET kind == reader[r].kind
             g == get_cached_movies(cache, outcome, now)
             p == From(SnapshotQuery(kind, reader[r].arg, g.ret), "snapshot")
         IN  /\ cache' = g.cache
             /\ cache_file' = IF g.fetched /\ ~g.raised
                              THEN save_to_file(g.cache, now) ELSE cache_file
             /\ reader' = [reader EXCEPT
                   ![r].pc = IF g.raised THEN "done" ELSE AfterFallback(kind),
                   ![r].res = IF g.raised THEN NoPayload ELSE p,
                   ![r].nsnap = @ + 1,
                   ![r].fetched = g.fetched,
                   ![r].status = IF g.raised THEN "error"
                                 ELSE IF kind = "movie_related" /\ IsEmpty(p)
                                 THEN "notfound" ELSE "ok"]
    /\ UNCHANGED <<auxVars, tierVars, cache_manager, connected, redisUp, redis, movie_repo,
                   store, writer, answered>>

(***************************************************************************)
(* The write paths of api.py: /refresh and /admin/refresh (refresh),       *)
(* fetch_and_add_new_movies (incr), admin_update_movie (edit),             *)
(* admin_bulk_delete (bulk_delete) and _fetch_and_add_movie_from_tmdb      *)
(* (tmdb_add).  A request is first pending in the event loop, then its     *)
(* handler runs from await to await.                                       *)
(***************************************************************************)
Ops == {"refresh", "incr", "edit", "bulk_delete", "tmdb_add"}

\* requests of the event loop that are neither unborn nor answered
Outstanding(w) == writer[w].pc \notin {"idle", "done"}
Running(w) == writer[w].pc \notin {"idle", "pending", "done"}

\* a handler that returned no longer holds its locals
Release(wr, w) ==
    IF wr[w].pc # "done" THEN wr
    ELSE [wr EXCEPT ![w].batch = NoMovies, ![w].todo = {}, ![w].slug = "a",
                    ![w].ip = 0]

\* bulk_write of UpdateOne(..., upsert=True) per movie
Upsert(st, batch) == [s \in Slugs |-> IF batch[s] # 0 THEN batch[s] ELSE st[s]]

\* the movies of a list whose slug the collection does not hold yet
NewOnly(st, batch) == [s \in Slugs |-> IF st[s] = 0 THEN batch[s] ELSE 0]

\* insert_many (ordered): documents go in in list order, the first duplicate
\* _id raises and ends the insertion
SlugOrder == <<"a", "b">>

RECURSIVE InsertFrom(_, _, _)
InsertFrom(st, batch, i) ==
    IF i > Len(SlugOrder) THEN [store |-> st, raised |-> FALSE]
    ELSE LET s == SlugOrder[i]
         IN  IF batch[s] = 0 THEN InsertFrom(st, batch, i + 1)
             ELSE IF st[s] # 0 THEN [store |-> st, raised |-> TRUE]
             ELSE InsertFrom([st EXCEPT ![s] = batch[s]], batch, i + 1)

InsertMany(st, batch) == InsertFrom(st, batch, 1)

\* the store holds st2 from now on; what the caches hold from before a
\* change of the store is marked as such
WriteStore(st2) ==
    /\ store' = st2
    /\ memory_cache' = IF st2 # store THEN MarkOldAll(memory_cache) ELSE memory_cache
    /\ redis' = IF st2 # store THEN RedisMarkOld(redis) ELSE redis
    /\ answered' = IF st2 # store THEN {} ELSE answered

\* a request arrives: s is the slug it names, n the slug of the title and
\* year it carries
WTrigger(w, op, s, n) ==
    /\ writer[w].pc \in {"idle", "done"}
    /\ writer' = [writer EXCEPT ![w] =
          [IdleWriter EXCEPT
              !.pc = "pending", !.op = op,
              !.todo = IF op = "bulk_delete" THEN {s, n} ELSE {},
              !.batch = IF op \in {"edit", "tmdb_add"}
                        THEN [x \in Slugs |-> IF x = n THEN 2 ELSE 0]
                        ELSE NoMovies,
              !.slug = IF op = "edit" THEN s ELSE "a",
              !.conc = \E w2 \in Writers \ {w} :
                          Outstanding(w2) /\ writer[w2].op = op]]
    /\ UNCHANGED <<auxVars, cache_file, tierVars, cache_manager, connected, redisUp, redis, movie_repo,
                   store, cache, reader, answered>>

\* /refresh: fetch_and_cache_movies(), then sync_movies_to_mongodb up to its
\* first await
StartRefresh(w) ==
    /\ writer[w].pc = "pending"
    /\ writer[w].op = "refresh"
    /\ \E outcome \in FetchOutcomes :
         LET f == fetch_and_cache_movies(cache, outcome, now)
         IN  /\ cache' = f.cache
             /\ cache_file' = IF f.fetched /\ ~f.raised
                              THEN save_to_file(f.cache, now) ELSE cache_file
             /\ writer' = Release([writer EXCEPT
                   ![w].pc = IF f.raised \/ ~movie_repo THEN "done" ELSE "upsert",
                   ![w].status = IF f.raised THEN "error"
                                 ELSE IF ~movie_repo THEN "ok" ELSE "none",
                   ![w].batch = f.ret,
                   ![w].fetched = f.fetched,
                   ![w].overlap = \E w2 \in Writers \ {w} :
                                     Running(w2) /\ writer[w2].op = "refresh"], w)
    /\ UNCHANGED <<auxVars, tierVars, cache_manager, connected, redisUp, redis, movie_repo,
                   store, reader, answered>>

\* fetch_and_add_new_movies up to the first await of insert_new_movies_only
StartIncr(w) ==
    /\ writer[w].pc = "pending"
    /\ writer[w].op = "incr"
    /\ \E outcome \in FetchOutcomes :
         LET empty == Present(outcome.movies) = {}
             stop == ~movie_repo \/ outcome.raises \/ empty
         IN  writer' = Release([writer EXCEPT
                ![w].pc = IF stop THEN "done" ELSE "existing",
                ![w].status = IF stop THEN "ok" ELSE "none",
                ![w].batch = IF stop THEN NoMovies ELSE outcome.movies,
                ![w].fetched = movie_repo,
                ![w].overlap = \E w2 \in Writers \ {w} :
                                  Running(w2) /\ writer[w2].op = "incr"], w)
    /\ UNCHANGED <<auxVars, cache_file, tierVars, cache_manager, connected, redisUp, redis, movie_repo,
                   store, cache, reader, answered>>

\* the admin handlers and the TMDB import up to their first await
StartAdmin(w) ==
    /\ writer[w].pc = "pending"
    /\ writer[w].op \in {"edit", "bulk_delete", "tmdb_add"}
    /\ LET op == writer[w].op
       IN  writer' = Release([writer EXCEPT
              ![w].pc = IF ~movie_repo THEN "done"
                        ELSE IF op = "edit" THEN "get_by_slug"
                        ELSE IF op = "bulk_delete" THEN "delete"
                        ELSE "upsert",
              ![w].status = IF ~movie_repo THEN "error" ELSE "none"], w)
    /\ UNCHANGED <<auxVars, cache_file, tierVars, cache_manager, connected, redisUp, redis, movie_repo,
                   store, cache, reader, answered>>

\* where a write handler goes when its store write raised
AfterWriteFailure_Invalidate(op) == IF op = "tmdb_add" THEN "done" ELSE "invalidate"

AfterWriteFailure(op) == "done"

\* where a write handler goes when upsert_movies returned
AfterUpsert(op) ==
    CASE op = "refresh" -> "last_refresh"
      [] op = "edit" -> "invalidate"
      [] op = "tmdb_add" -> "done"

\* await movie_repo.get_by_slug(slug) of admin_update_movie
WGetBySlug(w) ==
    /\ writer[w].pc = "get_by_slug"
    /\ \E ok \in BOOLEAN :
         LET found == ok /\ store[writer[w].slug] # 0
         IN  writer' = Release([writer EXCEPT
                ![w].pc = IF found THEN "upsert" ELSE "done",
                ![w].status = IF found THEN "none" ELSE "error"], w)
    /\ UNCHANGED <<auxVars, cache_file, tierVars, cache_manager, connected, redisUp, redis, movie_repo,
                   store, cache, reader, answered>>

\* await movie_repo.upsert_movies(...): an empty list returns at once
WUpsert(w) ==
    /\ writer[w].pc = "upsert"
    /\ \E ok \in BOOLEAN :
         LET op == writer[w].op
             b == writer[w].batch
             wrote == ok \/ Present(b) = {}
         IN  /\ WriteStore(IF wrote THEN Upsert(store, b) ELSE store)
             /\ writer' = Release([writer EXCEPT
                   ![w].pc = IF wrote THEN AfterUpsert(op) ELSE AfterWriteFailure(op),
                   ![w].acked = wrote,
                   ![w].status = IF ~wrote THEN "error"
                                 ELSE IF op = "tmdb_add" THEN "ok" ELSE "none"], w)
    /\ UNCHANGED <<auxVars, cache_file, now, ticks, got, cache_manager, connected, redisUp, movie_repo,
                   cache, reader>>

\* await movie_repo.set_last_refresh() of sync_movies_to_mongodb
WLastRefresh(w) ==
    /\ writer[w].pc = "last_refresh"
    /\ \E ok \in BOOLEAN :
         writer' = Release([writer EXCEPT
            ![w].pc = IF ok THEN "invalidate" ELSE AfterWriteFailure(writer[w].op),
            ![w].status = IF ok THEN "none" ELSE "error"], w)
    /\ UNCHANGED <<auxVars, cache_file, tierVars, cache_manager, connected, redisUp, redis, movie_repo,
                   store, cache, reader, answered>>

\* the find of insert_new_movies_only: the slugs that exist already
WExisting(w) ==
    /\ writer[w].pc = "existing"
    /\ \E ok \in BOOLEAN :
         LET new == NewOnly(store, writer[w].batch)
             none == Present(new) = {}
         IN  writer' = Release([writer EXCEPT
                ![w].pc = IF ok /\ ~none THEN "insert_many" ELSE "done",
                ![w].batch = IF ok THEN new ELSE @,
                ![w].status = IF ok /\ ~none THEN "none" ELSE "ok"], w)
    /\ UNCHANGED <<auxVars, cache_file, tierVars, cache_manager, connected, redisUp, redis, movie_repo,
                   store, cache, reader, answered>>

\* the insert_many of insert_new_movies_only; with inserted > 0 the caches
\* are invalidated
WInsertMany(w) ==
    /\ writer[w].pc = "insert_many"
    /\ \E ok \in BOOLEAN :
         LET ins == InsertMany(store, writer[w].batch)
             wrote == ok /\ ~ins.raised
         IN  /\ WriteStore(IF ok THEN ins.store ELSE store)
             /\ writer' = Release([writer EXCEPT
                   ![w].pc = IF wrote THEN "invalidate"
                             ELSE AfterWriteFailure(writer[w].op),
                   ![w].acked = wrote,
                   ![w].status = IF wrote THEN "none" ELSE "ok"], w)
    /\ UNCHANGED <<auxVars, cache_file, now, ticks, got, cache_manager, connected, redisUp, movie_repo,
                   cache, reader>>

\* one round of the loop of admin_bulk_delete: a delete that raises is
\* logged and the loop goes on
WDelete(w) ==
    /\ writer[w].pc = "delete"
    /\ writer[w].todo # {}
    /\ \E s \in writer[w].todo, ok \in BOOLEAN :
         /\ WriteStore(IF ok THEN [store EXCEPT ![s] = 0] ELSE store)
         /\ writer' = Release([writer EXCEPT ![w].todo = @ \ {s},
                                     ![w].acked = @ \/ ok], w)
    /\ UNCHANGED <<auxVars, cache_file, now, ticks, got, cache_manager, connected, redisUp, movie_repo,
                   cache, reader>>

\* cache.clear() after the loop: MovieCache has no such method, the
\* AttributeError ends the handler in its outer except
WClear(w) ==
    /\ writer[w].pc = "delete"
    /\ writer[w].todo = {}
    /\ writer' = Release([writer EXCEPT ![w].pc = "done", ![w].status = "error"], w)
    /\ UNCHANGED <<auxVars, cache_file, tierVars, cache_manager, connected, redisUp, redis, movie_repo,
                   store, cache, reader, answered>>

\* await get_cache().invalidate_all(): the local backend clears its four
\* caches; the remote one starts its loop over the key patterns
WInvalidate(w) ==
    /\ writer[w].pc = "invalidate"
    /\ LET remote == cache_manager = "redis" /\ connected
       IN  /\ memory_cache' = IF cache_manager = "memory"
                              THEN MemInvalidateAll(memory_cache)
                              ELSE memory_cache
           /\ writer' = Release([writer EXCEPT ![w].pc = IF remote THEN "scan" ELSE "done",
                                       ![w].ip = IF remote THEN 1 ELSE 0,
                                       ![w].inval = TRUE,
                                       ![w].status = IF remote THEN "none" ELSE "ok"], w)
    /\ UNCHANGED <<auxVars, cache_file, now, ticks, got, cache_manager, connected, redisUp, redis,
                   movie_repo, store, cache, reader, answered>>

\* an invalidate_all that lets the failure of the service out to its caller
InvalidateOutcome_Propagates(failed) == IF failed THEN "error" ELSE "ok"

\* how the caller of invalidate_all goes on: the except of invalidate_all
\* logs the failure and the call returns as after a completed loop
InvalidateOutcome(failed) == "ok"

\* scan and delete of one key pattern; a failure of the service ends the
\* loop inside invalidate_all's except
WRedisScan(w) ==
    /\ writer[w].pc = "scan"
    /\ LET i == writer[w].ip
           last == ~redisUp \/ i = Len(Patterns)
       IN  /\ redis' = RedisScanDelete(redis, i, redisUp)
           /\ writer' = Release([writer EXCEPT ![w].pc = IF last THEN "done" ELSE "scan",
                                       ![w].ip = IF last THEN 0 ELSE i + 1,
                                       ![w].ifail = ~redisUp,
                                       ![w].kept = IF ~redisUp THEN writer[w].batch
                                                   ELSE @,
                                       ![w].status = IF last
                                                     THEN InvalidateOutcome(~redisUp)
                                                     ELSE "none"], w)
    /\ UNCHANGED <<auxVars, cache_file, tierVars, cache_manager, connected, redisUp, movie_repo,
                   store, cache, reader, answered>>

\* the redis service stops answering / answers again
RedisDown ==
    /\ cache_manager = "redis"
    /\ redisUp
    /\ redisUp' = FALSE
    /\ UNCHANGED <<auxVars, cache_file, tierVars, cache_manager, connected, redis, movie_repo,
                   store, cache, reader, writer, answered>>

RedisBack ==
    /\ cache_manager = "redis"
    /\ ~redisUp
    /\ redisUp' = TRUE
    /\ UNCHANGED <<auxVars, cache_file, tierVars, cache_manager, connected, redis, movie_repo,
                   store, cache, reader, writer, answered>>

(***************************************************************************)
(* The application: one read request and one write request at a time next  *)
(* to each other, the clock, and the redis service coming and going.       *)
(***************************************************************************)
\* the snapshot MovieCache._load_from_file finds at startup, if any
LoadedSnapshot ==
    [movies |-> [s \in Slugs |-> IF s = "a" THEN 1 ELSE 0],
     last_fetch |-> StartTime - 1, is_fetching |-> FALSE]

\* the movies collection at startup
InitialStore == [s \in Slugs |-> IF s = "a" THEN 1 ELSE 0]

\* startup: init_cache() picks the backend once (redis only when its
\* connect() succeeded), movie_repo is set when MongoDB was reachable
AppInit ==
    /\ now = StartTime
    /\ ticks = 0
    /\ memory_cache = [kind \in Kinds |-> EmptyMap]
    /\ got = NoGet
    /\ cache_manager \in {"memory", "redis"}
    /\ connected = (cache_manager = "redis")
    /\ redisUp = (cache_manager = "redis")
    /\ redis = [kind \in Kinds |-> EmptyMap]
    /\ movie_repo \in BOOLEAN
    /\ store = InitialStore
    /\ cache \in {EmptySnapshot, LoadedSnapshot}
    /\ reader = [r \in Readers |-> IdleReader]
    /\ writer = [w \in Writers |-> IdleWriter]
    /\ answered = {}
    /\ proc = IdleProc
    /\ probe = NoProbe
    /\ cache_file = IF cache = EmptySnapshot THEN NoFile
                    ELSE save_to_file(cache, cache.last_fetch)
    /\ redis_url = (cache_manager = "redis")

\* time passes by the shorter of the TTLs
AppTick ==
    /\ ticks < MaxAppTicks
    /\ now' = now + MEM_BROWSE_TTL
    /\ ticks' = ticks + 1
    /\ answered' = {}
    /\ UNCHANGED <<auxVars, cache_file, memory_cache, got, cache_manager, connected, redisUp, redis,
                   movie_repo, store, cache, reader, writer>>

\* the read handlers alone, over a store nobody writes
FacadeNext ==
    \/ \E r \in Readers, kind \in Kinds :
          \E arg \in ReadArgs(kind) : ReadBegin(r, kind, arg)
    \/ \E r \in Readers : ReadStore(r)
    \/ \E r \in Readers : ReadSet(r)
    \/ \E r \in Readers : ReadFallback(r)
    \/ RedisDown
    \/ RedisBack
    \/ AppTick

SpecFacade == AppInit /\ [][FacadeNext]_vars

(***************************************************************************)
(* The read handlers over a redis that holds, under one key, a text that   *)
(* does not parse (written by another version of the program, or cut       *)
(* short).                                                                 *)
(***************************************************************************)
CorruptInit ==
    /\ now = StartTime
    /\ ticks = 0
    /\ memory_cache = [kind \in Kinds |-> EmptyMap]
    /\ got = NoGet
    /\ cache_manager = "redis"
    /\ connected = TRUE
    /\ redisUp = TRUE
    /\ \E bad \in Kinds : \E arg \in ReadArgs(bad) :
          redis = [kind \in Kinds |->
                     IF kind = bad
                     THEN MapPut(EmptyMap, CacheKey(kind, arg),
                                 [val |-> CorruptData, expires |-> now + RedisTTL(kind),
                                  at |-> now])
                     ELSE EmptyMap]
    /\ movie_repo \in BOOLEAN
    /\ store = InitialStore
    /\ cache \in {EmptySnapshot, LoadedSnapshot}
    /\ reader = [r \in Readers |-> IdleReader]
    /\ writer = [w \in Writers |-> IdleWriter]
    /\ answered = {}
    /\ proc = IdleProc
    /\ probe = NoProbe
    /\ cache_file = IF cache = EmptySnapshot THEN NoFile
                    ELSE save_to_file(cache, cache.last_fetch)
    /\ redis_url = TRUE

CorruptNext ==
    \/ \E r \in Readers, kind \in Kinds :
          \E arg \in ReadArgs(kind) : ReadBegin(r, kind, arg)
    \/ \E r \in Readers : ReadStore(r)
    \/ \E r \in Readers : ReadSet(r)
    \/ \E r \in Readers : ReadFallback(r)

SpecCorrupt == CorruptInit /\ [][CorruptNext]_vars

(***************************************************************************)
(* One write request next to one read request.                             *)
(***************************************************************************)
MutateWriters == {1}

\* the reads that accompany the writes
MutateReadArgs(kind) ==
    CASE kind = "movie_related" -> {<<"a">>}
      [] kind = "top_rated" -> {}
      [] kind = "browse" -> {}
      [] kind = "search" -> {}

MutateNext ==
    \/ \E r \in Readers, kind \in Kinds :
          \E arg \in MutateReadArgs(kind) : ReadBegin(r, kind, arg)
    \/ \E r \in Readers : ReadStore(r)
    \/ \E r \in Readers : ReadSet(r)
    \/ \E r \in Readers : ReadFallback(r)
    \/ \E w \in MutateWriters, op \in Ops, s \in Slugs, n \in Slugs :
          WTrigger(w, op, s, n)
    \/ \E w \in MutateWriters : StartRefresh(w)
    \/ \E w \in MutateWriters : StartIncr(w)
    \/ \E w \in MutateWriters : StartAdmin(w)
    \/ \E w \in MutateWriters : WGetBySlug(w)
    \/ \E w \in MutateWriters : WUpsert(w)
    \/ \E w \in MutateWriters : WLastRefresh(w)
    \/ \E w \in MutateWriters : WExisting(w)
    \/ \E w \in MutateWriters : WInsertMany(w)
    \/ \E w \in MutateWriters : WDelete(w)
    \/ \E w \in MutateWriters : WClear(w)
    \/ \E w \in MutateWriters : WInvalidate(w)
    \/ \E w \in MutateWriters : WRedisScan(w)

SpecMutate == AppInit /\ [][MutateNext]_vars

(***************************************************************************)
(* One write request while the redis service can go away.                  *)
(***************************************************************************)
InvalidateNext ==
    \/ \E w \in MutateWriters, op \in Ops, s \in Slugs, n \in Slugs :
          WTrigger(w, op, s, n)
    \/ \E w \in MutateWriters : StartRefresh(w)
    \/ \E w \in MutateWriters : StartIncr(w)
    \/ \E w \in MutateWriters : StartAdmin(w)
    \/ \E w \in MutateWriters : WGetBySlug(w)
    \/ \E w \in MutateWriters : WUpsert(w)
    \/ \E w \in MutateWriters : WLastRefresh(w)
    \/ \E w \in MutateWriters : WExisting(w)
    \/ \E w \in MutateWriters : WInsertMany(w)
    \/ \E w \in MutateWriters : WDelete(w)
    \/ \E w \in MutateWriters : WClear(w)
    \/ \E w \in MutateWriters : WInvalidate(w)
    \/ \E w \in MutateWriters : WRedisScan(w)
    \/ RedisDown
    \/ RedisBack

SpecInvalidate == AppInit /\ [][InvalidateNext]_vars

(***************************************************************************)
(* A read of a movie page racing with an admin edit of that movie, while   *)
(* time passes.                                                            *)
(***************************************************************************)
MaxRaceTicks == 2

\* time passes by a second or by the TTL of the movie pages
RaceTickSteps == {1, MEM_MOVIE_RELATED_TTL}

RaceTick ==
    /\ ticks < MaxRaceTicks
    /\ \E d \in RaceTickSteps : now' = now + d
    /\ ticks' = ticks + 1
    /\ UNCHANGED <<memory_cache, got, appVars>>

RaceNext ==
    \/ \E r \in Readers, kind \in Kinds :
          \E arg \in MutateReadArgs(kind) : ReadBegin(r, kind, arg)
    \/ \E r \in Readers : ReadStore(r)
    \/ \E r \in Readers : ReadSet(r)
    \/ \E r \in Readers : ReadFallback(r)
    \/ \E w \in MutateWriters : WTrigger(w, "edit", "a", "a")
    \/ \E w \in MutateWriters : StartAdmin(w)
    \/ \E w \in MutateWriters : WGetBySlug(w)
    \/ \E w \in MutateWriters : WUpsert(w)
    \/ \E w \in MutateWriters : WInvalidate(w)
    \/ \E w \in MutateWriters : WRedisScan(w)
    \/ RaceTick

SpecRace == AppInit /\ [][RaceNext]_vars

(***************************************************************************)
(* Two triggers of the bulk refresh or of the incremental update next to   *)
(* each other.                                                             *)
(***************************************************************************)
RefreshOps == {"refresh", "incr"}

RefreshNext ==
    \/ \E w \in Writers, op \in RefreshOps : WTrigger(w, op, "a", "a")
    \/ \E w \in Writers : StartRefresh(w)
    \/ \E w \in Writers : StartIncr(w)
    \/ \E w \in Writers : WUpsert(w)
    \/ \E w \in Writers : WLastRefresh(w)
    \/ \E w \in Writers : WExisting(w)
    \/ \E w \in Writers : WInsertMany(w)
    \/ \E w \in Writers : WInvalidate(w)
    \/ \E w \in Writers : WRedisScan(w)
    \/ RedisDown

SpecRefresh == AppInit /\ [][RefreshNext]_vars

(***************************************************************************)
(* Properties of the read handlers (SpecFacade).                           *)
(***************************************************************************)
\* C5: a read that hit the cache (movie-with-related, top-rated, search;
\* browse never looks into the cache) is answered with the cached value,
\* without a query of the movie store and without a read or a refresh of
\* the snapshot
C5_HitNoStore ==
    \A r \in Readers :
        reader[r].hit =>
            /\ reader[r].pc = "done"
            /\ reader[r].status = "ok"
            /\ reader[r].res.src = "cache"
            /\ reader[r].nstore = 0
            /\ reader[r].nsnap = 0
            /\ ~reader[r].fetched

C5_Witness ==
    \E r \in Readers :
        /\ reader[r].hit
        /\ reader[r].kind = "search"
        /\ reader[r].pc = "done"
        /\ ~IsEmpty(reader[r].res)

C7_SecondBrowseHits ==
    \A r \in Readers :
        (reader[r].kind = "browse" /\ reader[r].seen /\ reader[r].pc = "done") =>
            reader[r].nstore = 0

\* C8: every value held by any of the four caches of either backend was
\* returned by a query of the movie store; no answer computed from the
\* snapshot is ever held
C8_OnlyStoreValues ==
    \A kind \in Kinds :
        /\ \A k \in DOMAIN memory_cache[kind] :
              memory_cache[kind][k].val.src = "store"
        /\ \A k \in DOMAIN redis[kind] :
              Deserialize(redis[kind][k].val).src = "store"

C8_Witness ==
    \E r \in Readers :
        /\ reader[r].pc = "done"
        /\ reader[r].kind = "movie_related"
        /\ reader[r].res.src = "snapshot"
        /\ ~IsEmpty(reader[r].res)
        /\ reader[r].nstore = 1
        /\ CacheKey(reader[r].kind, reader[r].arg) \notin DOMAIN memory_cache[reader[r].kind]
        /\ CacheKey(reader[r].kind, reader[r].arg) \notin DOMAIN redis[reader[r].kind]

\* C10: while the redis service does not answer, every get of the remote
\* backend is a miss, every set and every round of invalidate_all leaves
\* the keys as they are, no read ends in an exception of the cache, and a
\* read begun then goes on to the movie store
C10_RemoteFailureDegrades ==
    /\ (cache_manager = "redis" /\ ~redisUp) =>
          \A kind \in Kinds :
              /\ \A arg \in ReadArgs(kind) :
                    /\ CacheGet(kind, arg) = Miss
                    /\ \A r \in Readers :
                          RedisSet(redis, kind, CacheKey(kind, arg), reader[r].res,
                                   now, connected, redisUp) = redis
              /\ \A i \in 1..Len(Patterns) : RedisScanDelete(redis, i, redisUp) = redis
    /\ \A r \in Readers :
          /\ reader[r].status # "cache_error"
          /\ reader[r].down =>
                /\ ~reader[r].hit
                /\ movie_repo => (reader[r].pc = "store" \/ reader[r].nstore = 1)
                /\ (reader[r].pc = "done" /\ reader[r].nsnap = 0 /\ movie_repo) =>
                      reader[r].res = From(StoreQuery(reader[r].kind, reader[r].arg),
                                           "store")

C10_Witness ==
    \E r \in Readers :
        /\ cache_manager = "redis"
        /\ connected
        /\ ~redisUp
        /\ reader[r].down
        /\ reader[r].pc = "done"
        /\ reader[r].res.src = "store"
        /\ ~IsEmpty(reader[r].res)
        /\ CacheKey(reader[r].kind, reader[r].arg) \in DOMAIN redis[reader[r].kind]

\* C30: a read handler of the remote backend whose key holds a stored text
\* that does not parse gets a miss from the cache and does not answer from
\* it, for every query kind
C30_CorruptIsMiss ==
    \A r \in Readers :
        (/\ reader[r].pc = "done"
         /\ cache_manager = "redis"
         /\ CacheKey(reader[r].kind, reader[r].arg) \in DOMAIN redis[reader[r].kind]
         /\ IsCorrupt(redis[reader[r].kind][CacheKey(reader[r].kind, reader[r].arg)].val))
            => (~reader[r].hit /\ reader[r].res.src # "cache")

\* C15: a read whose store query raised still ends with a usable result:
\* movies (possibly none) or "not found", never an exception
C15_StoreErrorAnswered ==
    \A r \in Readers :
        (reader[r].storefail /\ reader[r].pc = "done") =>
            reader[r].status \in {"ok", "notfound"}

(***************************************************************************)
(* Properties of the write paths (SpecMutate, SpecRefresh).                *)
(***************************************************************************)
\* C1: a read begun when every mutation has completed never hits a value
\* that was cached before a successful change of the store
C1_NoStaleHit ==
    \A r \in Readers :
        (reader[r].hit /\ reader[r].quiet) => ~reader[r].res.old

\* C3: of two bulk-refresh triggers outstanding at the same time, at most
\* one runs an external fetch cycle
C3_OneFetchCycle ==
    \A w1 \in Writers, w2 \in Writers :
        (/\ w1 # w2
         /\ writer[w1].op = "refresh"
         /\ writer[w2].op = "refresh"
         /\ writer[w2].conc
         /\ writer[w1].pc \notin {"idle", "pending"}
         /\ writer[w2].pc \notin {"idle", "pending"}) =>
            ~(writer[w1].fetched /\ writer[w2].fetched)

\* C4: an incremental update triggered while another one is running does
\* not start an external fetch of its own
C4_NoOverlap ==
    \A w \in Writers :
        (writer[w].op = "incr" /\ writer[w].overlap) => ~writer[w].fetched

\* C9: invalidate_all is called only by a mutation whose store write was
\* acknowledged; a mutation whose store write failed never calls it
C9_WriteBeforeInvalidate ==
    \A w \in Writers :
        /\ writer[w].pc \in {"invalidate", "scan"} => writer[w].acked
        /\ writer[w].inval => writer[w].acked
        /\ (writer[w].pc = "done" /\ writer[w].status = "error") => ~writer[w].inval

C9_Witness ==
    \E w \in Writers :
        /\ writer[w].op = "edit"
        /\ writer[w].pc = "done"
        /\ writer[w].acked
        /\ writer[w].inval
        /\ store["b"] = 2

\* C20: when the invalidation after a store write fails because the remote
\* cache is unreachable, the mutation still ends as a success and the store
\* holds the records that were written
C20_InvalidationFailureKeepsWrite ==
    \A w \in MutateWriters :
        (writer[w].pc = "done" /\ writer[w].ifail) =>
            /\ writer[w].status = "ok"
            /\ writer[w].acked
            /\ \A s \in Slugs : writer[w].kept[s] # 0 => store[s] = writer[w].kept[s]

C20_Witness ==
    \E w \in MutateWriters :
        /\ writer[w].pc = "done"
        /\ writer[w].op = "edit"
        /\ writer[w].ifail
        /\ writer[w].status = "ok"
        /\ Present(writer[w].kept) # {}
        /\ \A s \in Slugs : writer[w].kept[s] # 0 => store[s] = writer[w].kept[s]

\* C25: an admin edit whose upsert was acknowledged leaves the set of record
\* keys as it was and the submitted values in the record under the slug
\* that was edited
C25_EditPatchesInPlace ==
    [][\A w \in MutateWriters :
          (/\ writer[w].op = "edit"
           /\ writer[w].pc = "upsert"
           /\ writer'[w].pc # "upsert"
           /\ writer'[w].acked)
             => /\ Present(store') = Present(store)
                /\ store'[writer[w].slug] = 2]_vars

\* the entry of the active backend under the key of a read, and when it
\* was written
ServedAt(kind, arg) ==
    IF cache_manager = "memory" THEN memory_cache[kind][CacheKey(kind, arg)].at
    ELSE redis[kind][CacheKey(kind, arg)].at

KindTTL(kind) == IF cache_manager = "memory" THEN MemTTL(kind) ELSE RedisTTL(kind)

\* the cached answer is not the one the store gives now
StaleAnswer(kind, arg, v) ==
    LET p == StoreQuery(kind, arg)
    IN  v.movies # p.movies \/ v.related # p.related

\* C26: an answer from before a mutation that a get serves from the cache -
\* also one that was set after the mutation's invalidate_all - was written
\* less than one TTL of its kind ago
C26_StaleBoundedByTTL ==
    \A kind \in Kinds : \A arg \in MutateReadArgs(kind) :
        LET g == CacheGet(kind, arg)
        IN  (g.hit /\ StaleAnswer(kind, arg, g.val))
               => now - ServedAt(kind, arg) < KindTTL(kind)

\* the edit is over, its invalidate_all has run, and the cache holds the
\* answer from before the edit, set after the clear; a TTL later the get
\* misses
C26_Witness ==
    /\ \E w \in MutateWriters :
          writer[w].pc = "done" /\ writer[w].inval /\ writer[w].status = "ok"
    /\ cache_manager = "memory"
    /\ "a" \in DOMAIN memory_cache["movie_related"]
    /\ StaleAnswer("movie_related", <<"a">>, memory_cache["movie_related"]["a"].val)
    /\ now - memory_cache["movie_related"]["a"].at >= MEM_MOVIE_RELATED_TTL
    /\ ~CacheGet("movie_related", <<"a">>).hit

\* C28: a bulk delete over an available store ends as a success, with the
\* cache tier cleared
C28_BulkDeleteSucceeds ==
    \A w \in MutateWriters :
        (writer[w].op = "bulk_delete" /\ writer[w].pc = "done" /\ movie_repo) =>
            (writer[w].status = "ok" /\ writer[w].inval)

(***************************************************************************)
(* The life of the snapshot: the process starts and loads the file, runs   *)
(* fetch_and_cache_movies statement by statement, is killed, starts again. *)
(***************************************************************************)
\* MovieCache._load_from_file: the snapshot after construction
load_from_file(f, t) ==
    IF f.state = "absent" THEN EmptySnapshot
    ELSE IF ~(t - f.mtime < CACHE_TTL_SECONDS) THEN EmptySnapshot
    ELSE IF f.state = "partial" THEN EmptySnapshot
    ELSE [movies |-> f.movies, last_fetch |-> f.timestamp, is_fetching |-> FALSE]

\* open(CACHE_FILE, "w"): the file is truncated
OpenForWriting(f, t) ==
    [state |-> "partial", movies |-> NoMovies, timestamp |-> 0, mtime |-> t,
     had |-> f.had]

\* the finally of fetch_and_cache_movies, skipped
FetchFinally_Skipped(c) == c

\* the finally of fetch_and_cache_movies
FetchFinally(c) == [c EXCEPT !.is_fetching = FALSE]

\* the process starts: MovieCache() loads the file
SnapStart ==
    /\ ~proc.alive
    /\ proc' = IdleProc
    /\ cache' = load_from_file(cache_file, now)
    /\ UNCHANGED <<tierVars, cache_manager, connected, redisUp, redis, movie_repo,
                   store, reader, writer, answered, cache_file, probe, redis_url>>

\* the process is killed: what it held in memory is gone
Kill ==
    /\ proc.alive
    /\ proc' = [alive |-> FALSE, pc |-> "idle", last |-> "killed"]
    /\ cache' = EmptySnapshot
    /\ UNCHANGED <<tierVars, cache_manager, connected, redisUp, redis, movie_repo,
                   store, reader, writer, answered, cache_file, probe, redis_url>>

\* fetch_and_cache_movies, lines 281-284: the flag is checked and set
FetchBegin ==
    /\ proc.alive
    /\ proc.pc = "idle"
    /\ IF cache.is_fetching
       THEN /\ proc' = [proc EXCEPT !.last = "turned_away"]
            /\ cache' = cache
       ELSE /\ proc' = [proc EXCEPT !.pc = "fetching"]
            /\ cache' = [cache EXCEPT !.is_fetching = TRUE]
    /\ UNCHANGED <<tierVars, cache_manager, connected, redisUp, redis, movie_repo,
                   store, reader, writer, answered, cache_file, probe, redis_url>>

\* the external sources answer or the cycle raises; then set_movies assigns
\* _movies and _last_fetch
FetchSources ==
    /\ proc.alive
    /\ proc.pc = "fetching"
    /\ \E outcome \in FetchOutcomes :
         IF outcome.raises
         THEN /\ cache' = FetchFinally(cache)
              /\ proc' = [proc EXCEPT !.pc = "idle", !.last = "raised"]
         ELSE /\ cache' = [cache EXCEPT !.movies = outcome.movies, !.last_fetch = now]
              /\ proc' = [proc EXCEPT !.pc = "save"]
    /\ UNCHANGED <<tierVars, cache_manager, connected, redisUp, redis, movie_repo,
                   store, reader, writer, answered, cache_file, probe, redis_url>>

\* save_to_file opens the file for writing; a failure is printed and the
\* call returns
SaveOpen ==
    /\ proc.alive
    /\ proc.pc = "save"
    /\ \E ok \in BOOLEAN :
         IF ok
         THEN /\ cache_file' = OpenForWriting(cache_file, now)
              /\ proc' = [proc EXCEPT !.pc = "opened"]
              /\ cache' = cache
         ELSE /\ cache_file' = cache_file
              /\ proc' = [proc EXCEPT !.pc = "idle", !.last = "returned"]
              /\ cache' = FetchFinally(cache)
    /\ UNCHANGED <<tierVars, cache_manager, connected, redisUp, redis, movie_repo,
                   store, reader, writer, answered, probe, redis_url>>

\* json.dump and close; a failure in between is printed and leaves the file
\* as far as it was written
SaveDump ==
    /\ proc.alive
    /\ proc.pc = "opened"
    /\ \E ok \in BOOLEAN :
         cache_file' = IF ok THEN save_to_file(cache, now) ELSE cache_file
    /\ proc' = [proc EXCEPT !.pc = "idle", !.last = "returned"]
    /\ cache' = FetchFinally(cache)
    /\ UNCHANGED <<tierVars, cache_manager, connected, redisUp, redis, movie_repo,
                   store, reader, writer, answered, probe, redis_url>>

\* a fallback read through get_cached_movies()
ReadChecked ==
    /\ proc.alive
    /\ proc.pc = "idle"
    /\ \E outcome \in FetchOutcomes :
         LET g == get_cached_movies(cache, outcome, now)
         IN  /\ cache' = g.cache
             /\ cache_file' = IF g.fetched /\ ~g.raised
                              THEN save_to_file(g.cache, now) ELSE cache_file
             /\ probe' = [pc |-> "read", via |-> "get_cached_movies",
                          movies |-> g.ret, age |-> now - g.cache.last_fetch,
                          fetched |-> g.fetched, raised |-> g.raised]
    /\ UNCHANGED <<tierVars, cache_manager, connected, redisUp, redis, movie_repo,
                   store, reader, writer, answered, proc, redis_url>>

\* the fallback of search_movies (/movies/search) and of the search
\* suggestions: cache.get_movies()
ReadDirect ==
    /\ proc.alive
    /\ proc.pc = "idle"
    /\ probe' = [pc |-> "read", via |-> "search_movies",
                 movies |-> cache.movies, age |-> now - cache.last_fetch,
                 fetched |-> FALSE, raised |-> FALSE]
    /\ UNCHANGED <<tierVars, cache_manager, connected, redisUp, redis, movie_repo,
                   store, cache, reader, writer, answered, cache_file, proc,
                   redis_url>>

\* time passes by a second or by the snapshot's TTL
SnapTickSteps == {1, CACHE_TTL_SECONDS}

SnapTick ==
    /\ ticks < MaxSnapTicks
    /\ \E d \in SnapTickSteps : Tick(d)
    /\ UNCHANGED <<memory_cache, got, appVars>>

\* before the process starts: there is no snapshot file, or one that an
\* earlier run wrote a second ago; the process runs without MongoDB
SnapInit ==
    /\ now = StartTime
    /\ ticks = 0
    /\ memory_cache = [kind \in Kinds |-> EmptyMap]
    /\ got = NoGet
    /\ cache_manager = "memory"
    /\ connected = FALSE
    /\ redisUp = FALSE
    /\ redis = [kind \in Kinds |-> EmptyMap]
    /\ movie_repo = FALSE
    /\ store = NoMovies
    /\ cache = EmptySnapshot
    /\ reader = [r \in Readers |-> IdleReader]
    /\ writer = [w \in Writers |-> IdleWriter]
    /\ answered = {}
    /\ proc = [alive |-> FALSE, pc |-> "idle", last |-> "none"]
    /\ probe = NoProbe
    /\ cache_file \in {NoFile, save_to_file(LoadedSnapshot, LoadedSnapshot.last_fetch)}
    /\ redis_url = FALSE

SnapshotNext ==
    \/ SnapStart
    \/ Kill
    \/ FetchBegin
    \/ FetchSources
    \/ SaveOpen
    \/ SaveDump
    \/ ReadChecked
    \/ ReadDirect
    \/ SnapTick

SpecSnapshot == SnapInit /\ [][SnapshotNext]_vars

\* C11: after the process was killed, a snapshot file that was complete
\* before is still complete and readable
C11_PreviousIntact ==
    (~proc.alive /\ cache_file.had) => cache_file.state = "complete"

\* C12: whenever no call of fetch_and_cache_movies is executing the flag
\* _is_fetching is False, also after the fetch cycle raised, and a trigger
\* is never turned away
C12_FlagReleased ==
    /\ proc.pc = "idle" => ~cache.is_fetching
    /\ proc.last # "turned_away"

C12_Witness ==
    /\ proc.alive
    /\ proc.pc = "idle"
    /\ proc.last = "raised"
    /\ ~cache.is_fetching

\* C13: no read that falls back to the snapshot serves movies of a snapshot
\* older than CACHE_TTL_SECONDS
C13_NoStaleFallback ==
    (probe.pc = "read" /\ ~probe.raised /\ Present(probe.movies) # {}) =>
        probe.age <= CACHE_TTL_SECONDS

\* C21: after a start that found the snapshot file missing or unreadable the
\* snapshot is empty, and the first read that falls back to it runs a
\* fetch cycle
C21_BadFileThenRefresh ==
    [][(/\ proc.alive
        /\ proc.last = "none"
        /\ cache_file.state \in {"absent", "partial"}
        /\ probe = NoProbe
        /\ probe'.pc = "read")
          => (is_empty(cache) /\ probe'.fetched)]_vars

\* C22: a fetch cycle of a running process never replaces a snapshot that
\* holds movies by an empty one (a cycle whose sources all failed delivers
\* the empty list)
C22_EmptyFetchKeepsSnapshot ==
    [][(proc.alive /\ proc'.alive /\ ~is_empty(cache)) => ~is_empty(cache')]_vars

(***************************************************************************)
(* The counts of an incremental update, for batches given as the list of   *)
(* the slugs of the fetched records (a slug may occur more than once).     *)
(***************************************************************************)
RECURSIVE SeqsUpTo(_)
SeqsUpTo(n) ==
    IF n = 0 THEN {<<>>}
    ELSE LET shorter == SeqsUpTo(n - 1)
         IN  shorter \cup {Append(q, s) : q \in {x \in shorter : Len(x) = n - 1},
                                           s \in Slugs}

Batches == SeqsUpTo(MaxBatch)

\* insert_many(documents), ordered: the documents go in one by one, the
\* first duplicate _id raises
RECURSIVE insert_many(_, _, _)
insert_many(st, docs, i) ==
    IF i > Len(docs) THEN [store |-> st, inserted |-> Len(docs), raised |-> FALSE]
    ELSE IF st[docs[i]] # 0 THEN [store |-> st, inserted |-> i - 1, raised |-> TRUE]
    ELSE insert_many([st EXCEPT ![docs[i]] = 1], docs, i + 1)

\* MovieRepository.insert_new_movies_only: the store afterwards, the counts
\* returned, or raised
insert_new_movies_only(st, movies) ==
    IF movies = <<>>
    THEN [store |-> st, inserted |-> 0, skipped |-> 0, raised |-> FALSE]
    ELSE LET existing_slugs == {movies[i] : i \in 1..Len(movies)} \cap Present(st)
             IsNew(slug) == slug \notin existing_slugs
             new_movies == SelectSeq(movies, IsNew)
             skipped_count == Len(movies) - Len(new_movies)
         IN  IF new_movies = <<>>
             THEN [store |-> st, inserted |-> 0, skipped |-> skipped_count,
                   raised |-> FALSE]
             ELSE LET result == insert_many(st, new_movies, 1)
                  IN  [store |-> result.store, inserted |-> result.inserted,
                       skipped |-> skipped_count, raised |-> result.raised]

\* what fetch_and_add_new_movies returns for it: the counts, or (0, 0) from
\* its except
fetch_and_add_new_movies(st, movies) ==
    LET r == insert_new_movies_only(st, movies)
    IN  [store |-> r.store,
         ret |-> IF r.raised THEN <<0, 0>> ELSE <<r.inserted, r.skipped>>]

\* a store state and a fetched batch
InsertInit ==
    /\ now = StartTime
    /\ ticks = 0
    /\ memory_cache = [kind \in Kinds |-> EmptyMap]
    /\ got = NoGet
    /\ cache_manager = "memory"
    /\ connected = FALSE
    /\ redisUp = FALSE
    /\ redis = [kind \in Kinds |-> EmptyMap]
    /\ movie_repo = TRUE
    /\ store \in [Slugs -> {0, 1}]
    /\ cache = EmptySnapshot
    /\ reader = [r \in Readers |-> IdleReader]
    /\ writer = [w \in Writers |-> IdleWriter]
    /\ answered = {}
    /\ proc = IdleProc
    /\ \E b \in Batches :
          probe = [pc |-> "in", batch |-> b, before |-> store, ret |-> <<0, 0>>,
                   round |-> 0]
    /\ cache_file = NoFile
    /\ redis_url = FALSE

\* the incremental update runs on the batch; the caches are invalidated
\* when it reports inserted > 0
InsertApply ==
    /\ probe.pc = "in"
    /\ LET r == fetch_and_add_new_movies(store, probe.batch)
       IN  /\ store' = r.store
           /\ probe' = [probe EXCEPT !.pc = "out", !.before = store, !.ret = r.ret,
                                     !.round = 1]
           /\ memory_cache' = IF r.ret[1] > 0 THEN MemInvalidateAll(memory_cache)
                              ELSE memory_cache
    /\ UNCHANGED <<now, ticks, got, cache_manager, connected, redisUp, redis,
                   movie_repo, cache, reader, writer, answered, cache_file, proc,
                   redis_url>>

\* the same unchanged batch is fetched and handed in once more
InsertAgain ==
    /\ probe.pc = "out"
    /\ probe.round = 1
    /\ LET r == fetch_and_add_new_movies(store, probe.batch)
       IN  /\ store' = r.store
           /\ probe' = [probe EXCEPT !.before = store, !.ret = r.ret, !.round = 2]
           /\ memory_cache' = IF r.ret[1] > 0 THEN MemInvalidateAll(memory_cache)
                              ELSE memory_cache
    /\ UNCHANGED <<now, ticks, got, cache_manager, connected, redisUp, redis,
                   movie_repo, cache, reader, writer, answered, cache_file, proc,
                   redis_url>>

InsertNext ==
    \/ InsertApply
    \/ InsertAgain

SpecInsert == InsertInit /\ [][InsertNext]_vars

\* C14: an incremental update reports inserted = the number of records of
\* the batch whose slug the store did not hold, skipped = the number whose
\* slug it held, and inserted + skipped = the size of the batch
C14_CountsMatchBatch ==
    probe.pc = "out" =>
        LET b == probe.batch
            absent == {i \in 1..Len(b) : probe.before[b[i]] = 0}
            present == {i \in 1..Len(b) : probe.before[b[i]] # 0}
        IN  /\ probe.ret[1] = Cardinality(absent)
            /\ probe.ret[2] = Cardinality(present)
            /\ probe.ret[1] + probe.ret[2] = Len(b)


(***************************************************************************)
(* Cache keys: the browse key and the search key of both backends,        *)
(* computed for pairs of argument tuples.                                  *)
(***************************************************************************)

\* filter values a browse request can carry (query parameters are free text)
KeyGenres == {None, <<>>, <<"x">>, <<"x", ":">>}
KeyServices == {None, <<>>, <<":">>}
KeyAvailabilities == {None, <<>>}
KeyRatings == {NoneNum, 0, 7}
KeyPages == {1, 2}

BrowseTuples ==
    [genre : KeyGenres, service : KeyServices, availability : KeyAvailabilities,
     min_rating : KeyRatings, page : KeyPages]

\* search queries as typed
KeyQueries ==
    {<<>>, <<"a">>, <<"A">>, <<" ", "a">>, <<"a", " ">>, <<"A", " ">>, <<"b">>,
     <<"a", " ", "b">>, <<"A", " ", "B">>}

KeyResults == {From(Payload({<<"a", 1>>}, {}, 1), "store")}

\* MovieCacheManager._browse_key on a tuple
MemBrowseKeyOf(f) ==
    browse_key(f.genre, f.service, f.availability, f.min_rating, f.page)

\* RedisCacheManager._browse_key on a tuple
RedisBrowseKeyOf(f) ==
    redis_browse_key(f.genre, f.service, f.availability, f.min_rating, f.page)

KeysInit ==
    /\ now = StartTime
    /\ ticks = 0
    /\ memory_cache = [kind \in Kinds |-> EmptyMap]
    /\ got = NoGet
    /\ cache_manager = "memory"
    /\ connected = TRUE
    /\ redisUp = TRUE
    /\ redis = [kind \in Kinds |-> EmptyMap]
    /\ movie_repo = TRUE
    /\ store = InitialStore
    /\ cache = EmptySnapshot
    /\ reader = [r \in Readers |-> IdleReader]
    /\ writer = [w \in Writers |-> IdleWriter]
    /\ answered = {}
    /\ proc = IdleProc
    /\ \/ \E f1 \in BrowseTuples : \E f2 \in BrowseTuples :
             probe = [pc |-> "in", kind |-> "browse", f1 |-> f1, f2 |-> f2]
       \/ \E q1 \in KeyQueries : \E q2 \in KeyQueries : \E r \in KeyResults :
             probe = [pc |-> "in", kind |-> "search", q1 |-> q1, q2 |-> q2, r |-> r]
    /\ cache_file = NoFile
    /\ redis_url = TRUE

\* both backends build the browse key of each tuple
KeysBrowse ==
    /\ probe.pc = "in"
    /\ probe.kind = "browse"
    /\ probe' = [pc |-> "out", kind |-> "browse", f1 |-> probe.f1, f2 |-> probe.f2,
                 mem1 |-> MemBrowseKeyOf(probe.f1), mem2 |-> MemBrowseKeyOf(probe.f2),
                 red1 |-> RedisBrowseKeyOf(probe.f1),
                 red2 |-> RedisBrowseKeyOf(probe.f2)]
    /\ UNCHANGED <<tierVars, cache_manager, connected, redisUp, redis, movie_repo,
                   store, cache, reader, writer, answered, cache_file, proc,
                   redis_url>>

\* set_search(q1, r) and then get_search(q2), on each backend
KeysSearch ==
    /\ probe.pc = "in"
    /\ probe.kind = "search"
    /\ memory_cache' = MemSet(memory_cache, "search", SearchKey(probe.q1), probe.r, now)
    /\ redis' = RedisSet(redis, "search", SearchKey(probe.q1), probe.r, now,
                         connected, redisUp)
    /\ probe' = [pc |-> "out", kind |-> "search", q1 |-> probe.q1, q2 |-> probe.q2,
                 r |-> probe.r,
                 mem |-> MemGet(memory_cache', "search", SearchKey(probe.q2), now),
                 red |-> RedisGet(redis', "search", SearchKey(probe.q2), now,
                                  connected, redisUp)]
    /\ UNCHANGED <<now, ticks, got, cache_manager, connected, redisUp, movie_repo,
                   store, cache, reader, writer, answered, cache_file, proc,
                   redis_url>>

KeysNext ==
    \/ KeysBrowse
    \/ KeysSearch

SpecKeys == KeysInit /\ [][KeysNext]_vars

\* the absent value and the empty value of a text filter are one filter
SameText(x, y) == (x \in {None, <<>>} /\ y \in {None, <<>>}) \/ x = y

\* the absent value and zero are one rating threshold
SameRating(x, y) == (x \in {NoneNum, 0} /\ y \in {NoneNum, 0}) \/ x = y

\* two filter tuples that are the same after sentinel normalisation
SameFilters(f1, f2) ==
    /\ SameText(f1.genre, f2.genre)
    /\ SameText(f1.service, f2.service)
    /\ SameText(f1.availability, f2.availability)
    /\ SameRating(f1.min_rating, f2.min_rating)
    /\ f1.page = f2.page

\* C16: in both backends two browse tuples that differ only by absent
\* against empty text filters, or absent against zero min_rating, get one key
C16_SentinelsShareKey ==
    (probe.pc = "out" /\ probe.kind = "browse" /\ SameFilters(probe.f1, probe.f2))
        => (probe.mem1 = probe.mem2 /\ probe.red1 = probe.red2)

C16_Witness ==
    /\ probe.pc = "out"
    /\ probe.kind = "browse"
    /\ probe.f1.genre = None /\ probe.f2.genre = <<>>
    /\ probe.f1.service = <<>> /\ probe.f2.service = None
    /\ probe.f1.min_rating = NoneNum /\ probe.f2.min_rating = 0
    /\ probe.mem1 = probe.mem2
    /\ probe.red1 = probe.red2

\* C17: two browse tuples that differ in some field after sentinel
\* normalisation never get the same browse key, in either backend
C17_DistinctFiltersDistinctKeys ==
    (probe.pc = "out" /\ probe.kind = "browse" /\ ~SameFilters(probe.f1, probe.f2))
        => (probe.mem1 # probe.mem2 /\ probe.red1 # probe.red2)

\* C18: in both backends get_search(q2) straight after set_search(q1, r)
\* returns r exactly when the lowercased, trimmed queries are equal
C18_SearchKeyNormalised ==
    (probe.pc = "out" /\ probe.kind = "search")
        => LET same == Lower(Strip(probe.q1)) = Lower(Strip(probe.q2))
           IN  /\ probe.mem = (IF same THEN Hit(probe.r) ELSE Miss)
               /\ probe.red = (IF same THEN Hit(probe.r) ELSE Miss)

C18_Witness ==
    /\ probe.pc = "out"
    /\ probe.kind = "search"
    /\ probe.q1 = <<"A", " ">>
    /\ probe.q2 = <<" ", "a">>
    /\ probe.mem = Hit(probe.r)
    /\ probe.red = Hit(probe.r)

(***************************************************************************)
(* Startup and shutdown of the cache package: init_cache picks the        *)
(* backend, the handlers ask get_cache for it, close_cache drops it.       *)
(***************************************************************************)

\* the remote backend whenever a connection string is configured
init_cache_UrlOnly(url_set, connect_ok) ==
    IF url_set THEN "redis" ELSE "memory"

\* init_cache: the remote backend when REDIS_URL is set and connect()
\* returned True, the local one otherwise
init_cache(url_set, connect_ok) ==
    IF url_set /\ connect_ok THEN "redis" ELSE "memory"

\* RedisCacheManager.connect: True when the package imports and the ping
\* is answered
connect(installed, up) == installed /\ up

\* get_cache: memory_cache while _cache_manager is None
get_cache(mgr) == IF mgr = "none" THEN "memory" ELSE mgr

StartupInit ==
    /\ now = StartTime
    /\ ticks = 0
    /\ memory_cache = [kind \in Kinds |-> EmptyMap]
    /\ got = NoGet
    /\ cache_manager = "none"
    /\ connected = FALSE
    /\ redisUp \in BOOLEAN
    /\ redis = [kind \in Kinds |-> EmptyMap]
    /\ movie_repo \in BOOLEAN
    /\ store = InitialStore
    /\ cache \in {EmptySnapshot, LoadedSnapshot}
    /\ reader = [r \in Readers |-> IdleReader]
    /\ writer = [w \in Writers |-> IdleWriter]
    /\ answered = {}
    /\ proc = IdleProc
    /\ probe = [pc |-> "pre", chosen |-> "none", ok |-> FALSE, seen |-> {}]
    /\ cache_file = IF cache = EmptySnapshot THEN NoFile
                    ELSE save_to_file(cache, cache.last_fetch)
    /\ redis_url \in BOOLEAN

\* lifespan startup: await init_cache()
InitCache ==
    /\ probe.pc = "pre"
    /\ \E installed \in BOOLEAN :
          LET ok == redis_url /\ connect(installed, redisUp)
          IN  /\ cache_manager' = init_cache(redis_url, ok)
              /\ connected' = ok
              /\ probe' = [pc |-> "up", chosen |-> cache_manager', ok |-> ok,
                           seen |-> {}]
    /\ UNCHANGED <<tierVars, redisUp, redis, movie_repo, store, cache, reader,
                   writer, answered, cache_file, proc, redis_url>>

\* a handler asks for the backend: cache_mgr = get_cache()
GetCache ==
    /\ probe.pc = "up"
    /\ probe' = [probe EXCEPT !.seen = @ \cup {get_cache(cache_manager)}]
    /\ UNCHANGED <<tierVars, cache_manager, connected, redisUp, redis, movie_repo,
                   store, cache, reader, writer, answered, cache_file, proc,
                   redis_url>>

\* lifespan shutdown: await close_cache(), once the requests are answered
CloseCache ==
    /\ probe.pc = "up"
    /\ \A r \in Readers : reader[r].pc \in {"idle", "done"}
    /\ cache_manager' = "none"
    /\ connected' = FALSE
    /\ probe' = [probe EXCEPT !.pc = "closed"]
    /\ UNCHANGED <<tierVars, redisUp, redis, movie_repo, store, cache, reader,
                   writer, answered, cache_file, proc, redis_url>>

\* requests are served between startup and shutdown
Serving == probe.pc = "up"

StartupNext ==
    \/ InitCache
    \/ GetCache
    \/ CloseCache
    \/ Serving /\ \E r \in Readers, kind \in Kinds :
          \E arg \in MutateReadArgs(kind) : ReadBegin(r, kind, arg)
    \/ Serving /\ \E r \in Readers : ReadStore(r)
    \/ Serving /\ \E r \in Readers : ReadSet(r)
    \/ Serving /\ \E r \in Readers : ReadFallback(r)
    \/ Serving /\ RedisDown
    \/ Serving /\ RedisBack

SpecStartup == StartupInit /\ [][StartupNext]_vars

\* C19: the backend is chosen by init_cache alone - remote exactly when a
\* connection string is configured and connect succeeded, else local - and
\* from then until close_cache every get_cache() returns that backend,
\* whatever happens to the cache operations in between
C19_BackendFixed ==
    Serving =>
        /\ probe.chosen = (IF redis_url /\ probe.ok THEN "redis" ELSE "memory")
        /\ get_cache(cache_manager) = probe.chosen
        /\ probe.seen \subseteq {probe.chosen}

C19_Witness ==
    /\ Serving
    /\ probe.chosen = "redis"
    /\ ~redisUp
    /\ \E r \in Readers : reader[r].pc = "done" /\ reader[r].down
    /\ probe.seen = {"redis"}

(***************************************************************************)
(* Specifications of single functions: everything but the probe stays as   *)
(* it is after construction.                                               *)
(***************************************************************************)
RestInit ==
    /\ now = StartTime
    /\ ticks = 0
    /\ memory_cache = [kind \in Kinds |-> EmptyMap]
    /\ got = NoGet
    /\ cache_manager = "memory"
    /\ connected = FALSE
    /\ redisUp = FALSE
    /\ redis = [kind \in Kinds |-> EmptyMap]
    /\ movie_repo = FALSE
    /\ store = NoMovies
    /\ cache = EmptySnapshot
    /\ reader = [r \in Readers |-> IdleReader]
    /\ writer = [w \in Writers |-> IdleWriter]
    /\ answered = {}
    /\ proc = IdleProc
    /\ cache_file = NoFile
    /\ redis_url = FALSE

restVars ==
    <<tierVars, cache_manager, connected, redisUp, redis, movie_repo, store, cache,
      reader, writer, answered, cache_file, proc, redis_url>>

(***************************************************************************)
(* search_cached_movies with its relevance scores, on movies given by      *)
(* their searched fields.                                                  *)
(***************************************************************************)
MaxSearchList == 2

\* str.split(): the words between runs of whitespace
RECURSIVE TakeWord(_)
TakeWord(s) == IF s = <<>> \/ IsSpace(Head(s)) THEN <<>>
               ELSE <<Head(s)>> \o TakeWord(Tail(s))

RECURSIVE Split(_)
Split(s) ==
    LET t == LStrip(s)
    IN  IF t = <<>> THEN <<>>
        ELSE LET w == TakeWord(t)
             IN  <<w>> \o Split(SubSeq(t, Len(w) + 1, Len(t)))

\* any(part in text for part in query_parts if len(part) > 2)
AnyPartIn(parts, text) ==
    \E i \in 1..Len(parts) : Len(parts[i]) > 2 /\ Contains(parts[i], text)

\* a partial title match that counts less than a synopsis match
title_score_Low(ql, parts, m) ==
    LET t == Lower(m.title)
    IN  IF t = ql THEN 100
        ELSE IF Contains(ql, t) THEN 2
        ELSE IF AnyPartIn(parts, t) THEN 25
        ELSE 0

\* title matching: 100 exact, 50 partial, 25 word
title_score(ql, parts, m) ==
    LET t == Lower(m.title)
    IN  IF t = ql THEN 100
        ELSE IF Contains(ql, t) THEN 50
        ELSE IF AnyPartIn(parts, t) THEN 25
        ELSE 0

\* director matching: 20 whole query, 10 word
director_score(ql, parts, m) ==
    IF m.director = <<>> THEN 0
    ELSE LET d == Lower(m.director)
         IN  IF Contains(ql, d) THEN 20
             ELSE IF AnyPartIn(parts, d) THEN 10
             ELSE 0

\* cast matching: the first actor that matches decides, 15 or 8
RECURSIVE cast_score(_, _, _)
cast_score(ql, parts, actors) ==
    IF actors = <<>> THEN 0
    ELSE LET a == Lower(Head(actors))
         IN  IF Contains(ql, a) THEN 15
             ELSE IF AnyPartIn(parts, a) THEN 8
             ELSE cast_score(ql, parts, Tail(actors))

\* genre matching: 5 once
genre_score(ql, m) ==
    IF \E i \in 1..Len(m.genres) : Contains(ql, Lower(m.genres[i])) THEN 5 ELSE 0

\* synopsis matching: 3
synopsis_score(ql, m) ==
    IF m.synopsis # <<>> /\ Contains(ql, Lower(m.synopsis)) THEN 3 ELSE 0

search_score(query, m) ==
    LET ql == Strip(Lower(query))
        parts == Split(ql)
    IN  title_score(ql, parts, m) + director_score(ql, parts, m)
          + cast_score(ql, parts, m.cast) + genre_score(ql, m)
          + synopsis_score(ql, m)

\* list.sort(key=score, reverse=True): stable, the higher score first
RECURSIVE InsertByScore(_, _)
InsertByScore(sorted, x) ==
    IF sorted = <<>> THEN <<x>>
    ELSE IF Head(sorted).score >= x.score
         THEN <<Head(sorted)>> \o InsertByScore(Tail(sorted), x)
         ELSE <<x>> \o sorted

RECURSIVE SortByScore(_)
SortByScore(xs) ==
    IF xs = <<>> THEN <<>>
    ELSE InsertByScore(SortByScore(SubSeq(xs, 1, Len(xs) - 1)), xs[Len(xs)])

\* search_cached_movies: the movies with a positive score, by score
search_ranked(query, movies) ==
    IF query = <<>> \/ movies = <<>> THEN <<>>
    ELSE LET scored == [i \in 1..Len(movies) |->
                           [movie |-> movies[i], score |-> search_score(query, movies[i])]]
             kept == SelectSeq(scored, LAMBDA x : x.score > 0)
             sorted == SortByScore(kept)
         IN  [i \in 1..Len(sorted) |-> sorted[i].movie]

\* the movies of the snapshot, by the fields the search looks at
SearchTitles == {<<"a">>, <<"A", "b">>, <<"b">>, <<"a", "a", "a">>}
SearchSynopses == {<<>>, <<"a", "b">>}
SearchExtras ==
    {[director |-> <<>>, cast |-> <<>>, genres |-> <<>>],
     [director |-> <<"A">>, cast |-> <<>>, genres |-> <<>>],
     [director |-> <<>>, cast |-> << <<"b">> >>, genres |-> <<>>],
     [director |-> <<>>, cast |-> <<>>, genres |-> << <<"a", "a", "a">> >>]}

SearchMovies ==
    {[title |-> t, synopsis |-> y, director |-> e.director, cast |-> e.cast,
      genres |-> e.genres] : t \in SearchTitles, y \in SearchSynopses, e \in SearchExtras}

SearchQueries ==
    {<<"a">>, <<"B">>, <<"a", "b", " ">>, <<"a", "a", "a", " ", "b">>, <<" ">>}

RECURSIVE ListsUpTo(_, _)
ListsUpTo(S, n) ==
    IF n = 0 THEN {<<>>}
    ELSE LET shorter == ListsUpTo(S, n - 1)
         IN  shorter \cup {Append(l, x) : l \in {k \in shorter : Len(k) = n - 1}, x \in S}

SearchInit ==
    /\ RestInit
    /\ \E q \in SearchQueries : \E ms \in ListsUpTo(SearchMovies, MaxSearchList) :
          probe = [pc |-> "in", query |-> q, movies |-> ms, out |-> <<>>]

SearchRun ==
    /\ probe.pc = "in"
    /\ probe' = [probe EXCEPT !.pc = "out",
                              !.out = search_ranked(probe.query, probe.movies)]
    /\ UNCHANGED restVars

SearchNext == SearchRun

SpecSearch == SearchInit /\ [][SearchNext]_vars

\* the title equals or contains the query
TitleMatches(query, m) == Contains(Strip(Lower(query)), Lower(m.title))

\* the query, or one of its words, occurs in the text
TextMatches(query, text) ==
    LET ql == Strip(Lower(query))
    IN  Contains(ql, Lower(text)) \/ AnyPartIn(Split(ql), Lower(text))

\* the movie matches the query in its synopsis and in no other field
SynopsisOnly(query, m) ==
    /\ m.synopsis # <<>>
    /\ Contains(Strip(Lower(query)), Lower(m.synopsis))
    /\ ~TextMatches(query, m.title)
    /\ ~TextMatches(query, m.director)
    /\ \A i \in 1..Len(m.cast) : ~TextMatches(query, m.cast[i])
    /\ \A i \in 1..Len(m.genres) : ~TextMatches(query, m.genres[i])

\* C23: in the result of search_cached_movies every movie whose title equals
\* or contains the query stands before every movie that matches the query
\* only in its synopsis, and both are in the result
C23_TitleAboveSynopsis ==
    probe.pc = "out" =>
        /\ \A i \in 1..Len(probe.out) : \A j \in 1..Len(probe.out) :
              (TitleMatches(probe.query, probe.out[i])
                 /\ SynopsisOnly(probe.query, probe.out[j])) => i < j
        /\ \A k \in 1..Len(probe.movies) :
              (TitleMatches(probe.query, probe.movies[k])
                 \/ SynopsisOnly(probe.query, probe.movies[k]))
              => \E i \in 1..Len(probe.out) : probe.out[i] = probe.movies[k]

C23_Witness ==
    /\ probe.pc = "out"
    /\ Len(probe.movies) = 2
    /\ SynopsisOnly(probe.query, probe.movies[1])
    /\ TitleMatches(probe.query, probe.movies[2])
    /\ probe.out = <<probe.movies[2], probe.movies[1]>>

(***************************************************************************)
(* BaseScraper._request: one rate-limited request after the other, each    *)
(* with its retries.                                                       *)
(***************************************************************************)
MAX_RETRIES == 3
RATE_LIMIT_SECONDS == 1

MaxRequests == 2
MaxRequestTicks == 2

\* what session.request followed by raise_for_status can do
AttemptOutcomes == {"ok", "request_exception", "other_exception"}

RECURSIVE Pow2(_)
Pow2(n) == IF n = 0 THEN 1 ELSE 2 * Pow2(n - 1)

\* an except clause that re-raises on no attempt
LastAttempt_Never(attempt) == FALSE

\* `if attempt == self.MAX_RETRIES - 1: raise`
LastAttempt(attempt) == attempt = MAX_RETRIES - 1

IdleRequest ==
    [pc |-> "idle", attempt |-> 0, log |-> <<>>, waits |-> <<>>, calls |-> 0,
     last_request_time |-> 0]

requestRest ==
    <<memory_cache, got, cache_manager, connected, redisUp, redis, movie_repo,
      store, cache, reader, writer, answered, cache_file, proc, redis_url>>

RequestInit ==
    /\ RestInit
    /\ probe = IdleRequest

\* get() or post() is called
RequestCall ==
    /\ probe.pc \in {"idle", "returned", "raised"}
    /\ probe.calls < MaxRequests
    /\ probe' = [probe EXCEPT !.pc = "rate_limit", !.attempt = 0, !.log = <<>>,
                              !.waits = <<>>, !.calls = @ + 1]
    /\ UNCHANGED <<now, ticks, requestRest>>

\* _rate_limit: sleeps for what is left of RATE_LIMIT_SECONDS
RateLimit ==
    /\ probe.pc = "rate_limit"
    /\ LET elapsed == now - probe.last_request_time
           t == IF elapsed < RATE_LIMIT_SECONDS
                THEN now + (RATE_LIMIT_SECONDS - elapsed) ELSE now
       IN  /\ now' = t
           /\ probe' = [probe EXCEPT !.pc = "attempt", !.last_request_time = t]
    /\ UNCHANGED <<ticks, requestRest>>

\* the body of the for loop up to the sleep: the response is returned, a
\* RequestException is re-raised on the last attempt and printed otherwise,
\* any other exception leaves the method
RequestAttempt ==
    /\ probe.pc = "attempt"
    /\ probe.attempt < MAX_RETRIES
    /\ \E outcome \in AttemptOutcomes :
          probe' = [probe EXCEPT
             !.log = Append(@, outcome),
             !.pc = IF outcome = "ok" THEN "returned"
                    ELSE IF outcome = "other_exception" THEN "raised"
                    ELSE IF LastAttempt(probe.attempt) THEN "raised"
                    ELSE "sleep"]
    /\ UNCHANGED <<now, ticks, requestRest>>

\* time.sleep(2 ** attempt) and the next round of the loop; after the last
\* round the method raises RuntimeError
RequestSleep ==
    /\ probe.pc = "sleep"
    /\ now' = now + Pow2(probe.attempt)
    /\ probe' = [probe EXCEPT
          !.waits = Append(@, Pow2(probe.attempt)),
          !.attempt = @ + 1,
          !.pc = IF probe.attempt + 1 < MAX_RETRIES THEN "attempt" ELSE "raised"]
    /\ UNCHANGED <<ticks, requestRest>>

\* time passes between two requests
RequestTick ==
    /\ probe.pc \in {"idle", "returned", "raised"}
    /\ ticks < MaxRequestTicks
    /\ now' = now + 1
    /\ ticks' = ticks + 1
    /\ UNCHANGED <<probe, requestRest>>

\* the steps of a request that is under way
RequestStep ==
    \/ RateLimit
    \/ RequestAttempt
    \/ RequestSleep

RequestNext ==
    \/ RequestCall
    \/ RequestStep
    \/ RequestTick

\* the thread that runs the request is scheduled until the method returns
SpecRequest == RequestInit /\ [][RequestNext]_vars /\ WF_vars(RequestStep)

RequestUnderWay == probe.pc \in {"rate_limit", "attempt", "sleep"}
RequestOver == probe.pc \in {"returned", "raised"}

\* the waits so far are the first of 1 s, 2 s
WaitsGrow == \A i \in 1..Len(probe.waits) : i < MAX_RETRIES /\ probe.waits[i] = Pow2(i - 1)

\* C24: a request makes at most MAX_RETRIES attempts, with waits of 1 s and
\* then 2 s between them; it returns the first successful response or raises
\* after the last failed attempt; and a request under way always ends
C24_BoundedRetries ==
    /\ [](/\ Len(probe.log) <= MAX_RETRIES
          /\ WaitsGrow
          /\ (probe.pc = "returned" =>
                /\ probe.log[Len(probe.log)] = "ok"
                /\ \A i \in 1..(Len(probe.log) - 1) : probe.log[i] # "ok"
                /\ Len(probe.waits) = Len(probe.log) - 1)
          /\ (probe.pc = "raised" =>
                /\ \A i \in 1..Len(probe.log) : probe.log[i] # "ok"
                /\ Len(probe.waits) = Len(probe.log) - 1
                /\ (Len(probe.log) = MAX_RETRIES
                      \/ probe.log[Len(probe.log)] = "other_exception")))
    /\ (RequestUnderWay ~> RequestOver)

C24_Witness ==
    /\ probe.pc = "raised"
    /\ probe.log = <<"request_exception", "request_exception", "request_exception">>
    /\ probe.waits = <<1, 2>>

(***************************************************************************)
(* The four locks of MovieCacheManager: tasks that get, set and            *)
(* invalidate, each step of an `async with` taken on its own.  The event   *)
(* loop switches tasks at fewer places than these steps allow, so every    *)
(* schedule of the program is among the ones considered here.              *)
(***************************************************************************)
LockTasks == {1, 2}
LockOps == {"get", "set", "invalidate_all"}

\* the order in which invalidate_all takes the locks
LockOrder == <<"movie_related", "top_rated", "browse", "search">>

IdleTask == [pc |-> "idle", op |-> "none", want |-> "none", ix |-> 0]

\* __aexit__ of a lock that is kept
Unlock_Kept(locks, l) == locks

\* __aexit__: lock.release()
Unlock(locks, l) == [locks EXCEPT ![l] = 0]

LockInit ==
    /\ RestInit
    /\ probe = [locks |-> [k \in Kinds |-> 0], tasks |-> [t \in LockTasks |-> IdleTask]]

\* a task calls get_*, set_* or invalidate_all and reaches its first
\* `async with`
LockCall(t, op, kind) ==
    /\ probe.tasks[t].pc \in {"idle", "done"}
    /\ probe' = [probe EXCEPT !.tasks[t] =
          [pc |-> "waiting", op |-> op,
           want |-> IF op = "invalidate_all" THEN LockOrder[1] ELSE kind,
           ix |-> IF op = "invalidate_all" THEN 1 ELSE 0]]
    /\ UNCHANGED restVars

\* lock.acquire() returns: the lock was free
LockAcquire(t) ==
    /\ probe.tasks[t].pc = "waiting"
    /\ probe.locks[probe.tasks[t].want] = 0
    /\ probe' = [probe EXCEPT !.locks[probe.tasks[t].want] = t,
                              !.tasks[t].pc = "holding"]
    /\ UNCHANGED restVars

\* the body of the `async with` and the release; invalidate_all goes on to
\* its next lock
LockBody(t) ==
    /\ probe.tasks[t].pc = "holding"
    /\ LET task == probe.tasks[t]
           kind == task.want
           more == task.op = "invalidate_all" /\ task.ix < Len(LockOrder)
       IN  /\ \E k \in TierKeys(kind), v \in TierPayloads :
                 memory_cache' =
                    CASE task.op = "get" -> memory_cache
                      [] task.op = "set" -> MemSet(memory_cache, kind, k, v, now)
                      [] task.op = "invalidate_all" ->
                            [memory_cache EXCEPT ![kind] = EmptyMap]
           /\ probe' = [probe EXCEPT
                 !.locks = Unlock(probe.locks, kind),
                 !.tasks[t].pc = IF more THEN "waiting" ELSE "done",
                 !.tasks[t].want = IF more THEN LockOrder[task.ix + 1] ELSE "none",
                 !.tasks[t].ix = IF more THEN task.ix + 1 ELSE 0]
    /\ UNCHANGED <<now, ticks, got, cache_manager, connected, redisUp, redis,
                   movie_repo, store, cache, reader, writer, answered, cache_file,
                   proc, redis_url>>

LockNext ==
    \/ \E t \in LockTasks, op \in LockOps, kind \in Kinds : LockCall(t, op, kind)
    \/ \E t \in LockTasks : LockAcquire(t)
    \/ \E t \in LockTasks : LockBody(t)

SpecLocks == LockInit /\ [][LockNext]_vars

\* the locks a task holds
Held(t) == {l \in Kinds : probe.locks[l] = t}

\* the task can take its next step
CanStep(t) ==
    \/ probe.tasks[t].pc = "holding"
    \/ probe.tasks[t].pc = "waiting" /\ probe.locks[probe.tasks[t].want] = 0

\* C27: a get or set holds and waits for the lock of its own kind only,
\* invalidate_all holds at most one lock, two tasks are never inside the
\* same kind's section, a task that waits waits for a task working on that
\* very kind, and while a task waits some task can step
C27_LockDiscipline ==
    /\ \A t \in LockTasks :
          /\ Cardinality(Held(t)) <= 1
          /\ probe.tasks[t].pc = "holding" => Held(t) = {probe.tasks[t].want}
          /\ probe.tasks[t].pc # "holding" => Held(t) = {}
    /\ \A t \in LockTasks : \A u \in LockTasks \ {t} :
          /\ ~(/\ probe.tasks[t].pc = "holding"
               /\ probe.tasks[u].pc = "holding"
               /\ probe.tasks[t].want = probe.tasks[u].want)
          /\ (probe.tasks[t].pc = "waiting" /\ ~CanStep(t)) =>
                /\ probe.tasks[u].pc = "holding"
                /\ probe.tasks[u].want = probe.tasks[t].want
    /\ (\E t \in LockTasks : probe.tasks[t].pc = "waiting") =>
          \E t \in LockTasks : CanStep(t)

\* a set waits for the lock of its kind while invalidate_all clears that
\* kind, having cleared the kinds before it
C27_Witness ==
    /\ probe.tasks[1].op = "set"
    /\ probe.tasks[1].pc = "waiting"
    /\ probe.tasks[1].want = "browse"
    /\ probe.tasks[2].op = "invalidate_all"
    /\ probe.tasks[2].pc = "holding"
    /\ probe.tasks[2].want = "browse"
    /\ Held(2) = {"browse"}

(***************************************************************************)
(* POST /admin/clear-cache next to the read handlers that fill the cache.  *)
(***************************************************************************)
\* the methods the two cache managers define
MemoryMethods ==
    {"get_movie_with_related", "set_movie_with_related", "get_top_rated",
     "set_top_rated", "get_browse", "set_browse", "get_search", "set_search",
     "_browse_key", "invalidate_all", "get_stats"}

RedisMethods ==
    MemoryMethods \cup {"connect", "close", "is_connected", "_serialize_movie",
                        "_deserialize_movie", "_serialize_movies",
                        "_deserialize_movies"}

Methods(backend) == IF backend = "redis" THEN RedisMethods ELSE MemoryMethods

\* every query kind of the active backend is empty
ActiveCacheEmpty ==
    IF get_cache(cache_manager) = "memory"
    THEN \A kind \in Kinds : Expire(memory_cache[kind], now) = EmptyMap
    ELSE \A kind \in Kinds : Expire(redis[kind], now) = EmptyMap

\* admin_clear_cache, authorized: cache_mgr.clear_all() is looked up on the
\* manager; an attribute the class does not define raises AttributeError,
\* which leaves the handler
AdminClearCache ==
    /\ LET backend == get_cache(cache_manager)
           defined == "clear_all" \in Methods(backend)
       IN  probe' = [pc |-> "clear_cache",
                     status |-> IF defined THEN "redirect" ELSE "error",
                     empty |-> ActiveCacheEmpty]
    /\ UNCHANGED restVars

ClearNext ==
    \/ \E r \in Readers, kind \in Kinds :
          \E arg \in MutateReadArgs(kind) : ReadBegin(r, kind, arg)
    \/ \E r \in Readers : ReadStore(r)
    \/ \E r \in Readers : ReadSet(r)
    \/ \E r \in Readers : ReadFallback(r)
    \/ AdminClearCache

SpecClear == AppInit /\ [][ClearNext]_vars

\* C29: an authorized POST /admin/clear-cache answers with the redirect and
\* leaves every query kind of the active backend empty
C29_ClearCacheEmpties ==
    probe.pc = "clear_cache" => (probe.status = "redirect" /\ probe.empty)

====
